---- MODULE Spec2Model ----
(***************************************************************************)
(* Financial business-case engine of the automation business case         *)
(* calculator: NPV, IRR (bisection), payback period, CSAT sentiment       *)
(* distribution, debt model and the cash-flow series built on Calculate.  *)
(*                                                                         *)
(* Numbers.  The Python code works on floats.  Here every quantity is an  *)
(* exact rational <<num, den>> with den > 0, or an integer numerator over *)
(* a fixed denominator that the comment of the definition names.  An      *)
(* optional value (Python's None) is the empty tuple <<>>, a present      *)
(* value x is <<x>> (or the rational itself where the comment says so).   *)
(***************************************************************************)
EXTENDS Integers, Sequences, FiniteSets, TLC

VARIABLES
    pc,            \* position of the computation: "start", "loop", "done"
    cash_flows,    \* the cash-flow series handed to the financial helpers
    guess_low,     \* compute_irr: lower end of the bracket (numerator over RateDen)
    guess_high,    \* compute_irr: upper end of the bracket (numerator over RateDen)
    npv_low,       \* compute_irr: NPV at guess_low, a rational
    npv_high,      \* compute_irr: NPV at guess_high, a rational
    iter,          \* compute_irr: iterations of the for loop already run
    irr,           \* compute_irr: <<>> before return and for None, else <<rate>>
    npv_calls,     \* compute_irr: calls of npv_at made so far
    cash_flows_b,  \* a second series, compared with cash_flows
    payback,       \* compute_payback_period(cash_flows): <<>> or a rational
    payback_b,     \* compute_payback_period(cash_flows_b): <<>> or a rational
    payback_branch,    \* compute_payback_period(cash_flows): <<>> or the return taken
    rate1,         \* a discount rate (numerator over NpvRateDen)
    rate2,         \* a second discount rate (numerator over NpvRateDen)
    npv1,          \* compute_npv(rate1, cash_flows): <<>> or a rational
    npv2,          \* compute_npv(rate2, cash_flows): <<>> or a rational
    expected_total,    \* CSAT: total expected responses per year
    sentiment,         \* CSAT: the selected sentiment label
    dist_counts,       \* CSAT: result of csat_utils.apply_distribution, or <<>>
    session_counts,    \* CSAT page: session csat_happy/neutral/sad_cnt, <<>> if unset
    manual_override,   \* CSAT page: session csat_manual_override
    inp,           \* calculator page: the values of the input widgets, a record
    out,           \* calculator page: <<>> or the values the Calculate handler set
    calc_runs,     \* calculator page: Calculate clicks handled so far
    csat_w,            \* CSAT page: session csat_w_happy / _neutral / _sad
    responses_year,    \* CSAT page: responses_per_year of the last render
    csat_out,          \* CSAT page: <<>> or what the last render computed and showed
    auto_expected,     \* CSAT page: session csat_auto_expected
    dataA,             \* comparison page: scenario document A, <<>> before upload
    dataB,             \* comparison page: scenario document B, <<>> before upload
    rows,              \* comparison page: <<>> or the rows of the comparison table
    loaded_scenario,   \* calculator page: session loaded_scenario, <<>> if none
    scenario_json,     \* calculator page: <<>> or the document of build_scenario_payload
    simple,            \* simple calculator: session values of the input widgets
    simple_upload,     \* simple calculator: the uploaded file, <<>> if none
    simple_processed,  \* simple calculator: session simple_upload_processed_name
    simple_applied,    \* simple calculator: session simple_upload_applied
    simple_view,       \* simple calculator: <<>> or what the last script run showed
    timeline_start_date,  \* solution wizard: session timeline_start_date (a day number)
    timeline_milestones,  \* solution wizard: session timeline_milestones
    tl_widgets,           \* solution wizard: session values of the _tl_del_* checkboxes
    holiday_set,          \* solution wizard: the days of _build_holiday_set
    timeline_schedule,    \* solution wizard: <<>> or the schedule of the last run
    timeline_runs         \* solution wizard: runs of the timeline section so far

irrVars == <<guess_low, guess_high, npv_low, npv_high, iter, irr, npv_calls>>
payVars == <<cash_flows_b, payback, payback_b, payback_branch>>
npvVars == <<rate1, rate2, npv1, npv2>>
csatVars == <<expected_total, sentiment, dist_counts, session_counts, manual_override>>
calcVars == <<inp, out, calc_runs>>
sessionVars ==
    <<csat_w, responses_year, csat_out, auto_expected, dataA, dataB, rows,
      loaded_scenario, scenario_json>>
simpleVars == <<simple, simple_upload, simple_processed, simple_applied, simple_view>>
timelineVars ==
    <<timeline_start_date, timeline_milestones, tl_widgets, holiday_set,
      timeline_schedule, timeline_runs>>
pageVars == <<simpleVars, timelineVars>>
vars ==
    <<pc, cash_flows, irrVars, payVars, npvVars, csatVars, calcVars, sessionVars,
      pageVars>>

None == <<>>

-----------------------------------------------------------------------------
(* Bounds of the model *)

\* Largest magnitude of a cash-flow entry offered to compute_irr.
MaxCash == 10

\* Binary digits a rate keeps below one tenth (a Python float keeps 52: the
\* bracket of compute_irr stops shrinking once its ends are neighbours).
FracBits == 19

-----------------------------------------------------------------------------
(* Arithmetic helpers *)

Abs(x) == IF x < 0 THEN -x ELSE x

Sgn(x) == IF x > 0 THEN 1 ELSE IF x < 0 THEN -1 ELSE 0

RECURSIVE Pow(_, _)
Pow(b, e) == IF e = 0 THEN 1 ELSE b * Pow(b, e - 1)

RECURSIVE Gcd(_, _)
Gcd(a, b) == IF b = 0 THEN a ELSE Gcd(b, a % b)

\* The rational num/den (den > 0) in lowest terms.
Norm(num, den) ==
    LET g == Gcd(Abs(num), den) IN <<num \div g, den \div g>>

\* a + b for rationals.
RatAdd(a, b) ==
    LET g == Gcd(a[2], b[2])
    IN  Norm(a[1] * (b[2] \div g) + b[1] * (a[2] \div g), (a[2] \div g) * b[2])

\* a - b and a * b for rationals; the rational of an integer.
RatSub(a, b) == RatAdd(a, <<0 - b[1], b[2]>>)
RatMul(a, b) == Norm(a[1] * b[1], a[2] * b[2])
Rat(n) == <<n, 1>>

\* a < b, a <= b and a = b for rationals.
RatLess(a, b) == a[1] * b[2] < b[1] * a[2]
RatLeq(a, b) == a[1] * b[2] <= b[1] * a[2]
RatEq(a, b) == a[1] * b[2] = b[1] * a[2]

\* Sign of the float product a * b of two rationals (denominators are positive).
ProductSign(a, b) == Sgn(a[1]) * Sgn(b[1])

\* abs(a) < 1/inv, for a rational a and a positive integer inv:
\* |num| * inv < den, written so that the product is never formed.
AbsBelow(a, inv) == Abs(a[1]) <= (a[2] - 1) \div inv

-----------------------------------------------------------------------------
(* utils.compute_npv *)

\* The term with the discount factor multiplied in: cf * ((1 + r) ** t).
NpvTerm_Compounded(rate, cf, t) ==
    Norm(cf * Pow(rate[1] + rate[2], t), Pow(rate[2], t))

\* The term cf / ((1 + r) ** t) for the rate r = rate[1] / rate[2].
NpvTerm(rate, cf, t) == Norm(cf * Pow(rate[2], t), Pow(rate[1] + rate[2], t))

RECURSIVE NpvLoop(_, _, _, _)
NpvLoop(rate, cfs, t, npv) ==
    IF t > Len(cfs) THEN npv
    ELSE NpvLoop(rate, cfs, t + 1, RatAdd(npv, NpvTerm(rate, cfs[t], t - 1)))

\* The sum started at Year 1, leaving the Year-0 entry out.
compute_npv_SkipYear0(discount_rate, cfs) == NpvLoop(discount_rate, cfs, 2, <<0, 1>>)

\* npv = 0.0; for t, cf in enumerate(cash_flows): npv += cf / ((1 + r) ** t)
compute_npv(discount_rate, cfs) == NpvLoop(discount_rate, cfs, 1, <<0, 1>>)

-----------------------------------------------------------------------------
(* compute_irr: bisection over [-0.9, 10.0] *)

\* Denominator of the rates of compute_irr: tenths, halved FracBits times.
RateDen == 10 * Pow(2, FracBits)

\* Default bracket, in tenths: guess_low = -0.9, guess_high = 10.0.
GuessLowTenths == -9
GuessHighTenths == 100

\* range(100)
MaxIter == 100

\* abs(npv_mid) < 1e-6
TolInv == 1000000

npv_at(rate, cfs) == compute_npv(<<rate, RateDen>>, cfs)

\* (guess_low + guess_high) / 2, rounded to a representable rate.
Mid(lo, hi) == (lo + hi) \div 2

\* A precondition that also rejects a zero product.
NoSignChange_Strict(nl, nh) == ProductSign(nl, nh) >= 0

\* if npv_low * npv_high > 0: return None
NoSignChange(nl, nh) == ProductSign(nl, nh) > 0

\* The variables of the other computations, while one specification runs.
IrrIdle ==
    /\ guess_low = 0 /\ guess_high = 0 /\ npv_low = None /\ npv_high = None
    /\ iter = 0 /\ irr = None /\ npv_calls = 0
PayIdle ==
    /\ cash_flows_b = None /\ payback = None /\ payback_b = None
    /\ payback_branch = None
NpvIdle == rate1 = 0 /\ rate2 = 0 /\ npv1 = None /\ npv2 = None
CsatIdle ==
    /\ expected_total = 0 /\ sentiment = "" /\ dist_counts = None
    /\ session_counts = None /\ manual_override = FALSE
CalcIdle == inp = None /\ out = None /\ calc_runs = 0
SessionIdle ==
    /\ csat_w = None /\ responses_year = 0 /\ csat_out = None
    /\ auto_expected = TRUE
    /\ dataA = None /\ dataB = None /\ rows = None
    /\ loaded_scenario = None /\ scenario_json = None
SimpleIdle ==
    /\ simple = None /\ simple_upload = None /\ simple_processed = None
    /\ simple_applied = FALSE /\ simple_view = None
TimelineIdle ==
    /\ timeline_start_date = 0 /\ timeline_milestones = None /\ tl_widgets = None
    /\ holiday_set = {} /\ timeline_schedule = None /\ timeline_runs = 0
PagesIdle == SimpleIdle /\ TimelineIdle

IrrInputs ==
    {<<a>> : a \in -MaxCash..MaxCash}
        \cup {<<a, b>> : a \in -MaxCash..MaxCash, b \in -MaxCash..MaxCash}

IrrInit ==
    /\ pc = "start"
    /\ cash_flows \in IrrInputs
    /\ guess_low = GuessLowTenths * Pow(2, FracBits)
    /\ guess_high = GuessHighTenths * Pow(2, FracBits)
    /\ npv_low = None
    /\ npv_high = None
    /\ iter = 0
    /\ irr = None
    /\ npv_calls = 0
    /\ PayIdle /\ NpvIdle /\ CsatIdle /\ CalcIdle /\ SessionIdle
    /\ PagesIdle

\* Lines 98-103: evaluate both ends and test the precondition.
IrrBegin ==
    /\ pc = "start"
    /\ LET nl == npv_at(guess_low, cash_flows)
           nh == npv_at(guess_high, cash_flows)
       IN  /\ npv_low' = nl
           /\ npv_high' = nh
           /\ pc' = IF NoSignChange(nl, nh) THEN "done" ELSE "loop"
    /\ irr' = None
    /\ npv_calls' = npv_calls + 2
    /\ UNCHANGED <<cash_flows, guess_low, guess_high, iter>>
    /\ UNCHANGED <<payVars, npvVars, csatVars, calcVars, sessionVars>>
    /\ UNCHANGED pageVars

\* A loop that runs one iteration more than range(100).
LoopHasNext_OneMore(i) == i <= MaxIter

\* for _ in range(100): another iteration follows the i already run.
LoopHasNext(i) == i < MaxIter

\* Lines 105-115: one iteration of the for loop.
IrrIterate ==
    /\ pc = "loop"
    /\ LoopHasNext(iter)
    /\ LET mid == Mid(guess_low, guess_high)
           npv_mid == npv_at(mid, cash_flows)
       IN  IF AbsBelow(npv_mid, TolInv)
           THEN /\ irr' = <<mid>>
                /\ pc' = "done"
                /\ UNCHANGED <<guess_low, guess_high, npv_low, npv_high>>
           ELSE /\ IF ProductSign(npv_low, npv_mid) < 0
                   THEN /\ guess_high' = mid
                        /\ npv_high' = npv_mid
                        /\ UNCHANGED <<guess_low, npv_low>>
                   ELSE /\ guess_low' = mid
                        /\ npv_low' = npv_mid
                        /\ UNCHANGED <<guess_high, npv_high>>
                /\ UNCHANGED <<irr, pc>>
    /\ iter' = iter + 1
    /\ npv_calls' = npv_calls + 1
    /\ UNCHANGED <<cash_flows, payVars, npvVars, csatVars, calcVars, sessionVars>>
    /\ UNCHANGED pageVars

\* Line 117: the loop ran out; return the midpoint of the final bracket.
IrrExhaust ==
    /\ pc = "loop"
    /\ ~LoopHasNext(iter)
    /\ irr' = <<Mid(guess_low, guess_high)>>
    /\ pc' = "done"
    /\ UNCHANGED <<cash_flows, guess_low, guess_high, npv_low, npv_high, iter, npv_calls>>
    /\ UNCHANGED <<payVars, npvVars, csatVars, calcVars, sessionVars>>
    /\ UNCHANGED pageVars

IrrNext == IrrBegin \/ IrrIterate \/ IrrExhaust

SpecIrr == IrrInit /\ [][IrrNext]_vars

\* The initial bracket of compute_irr.
Low0 == GuessLowTenths * Pow(2, FracBits)
High0 == GuessHighTenths * Pow(2, FracBits)

\* C1: IRR round trip.  Whenever compute_irr returns a rate r (not None),
\* |compute_npv(r, cash_flows)| < 1e-4, also when a root lies exactly at an end
\* of the bracket and when the loop runs out.
C1_IrrRoundTrip ==
    (pc = "done" /\ irr # None) => AbsBelow(npv_at(irr[1], cash_flows), 10000)

\* C5: compute_irr returns None exactly when NPV(low) * NPV(high) > 0 at the
\* initial bracket; with a product <= 0 it returns a rate.
C5_NullIffNoSignChange ==
    pc = "done" =>
        (irr = None <=>
            ProductSign(npv_at(Low0, cash_flows), npv_at(High0, cash_flows)) > 0)

\* C5 witness: a series whose NPV is exactly 0 at an end of the bracket (the
\* product is 0) and for which compute_irr returned a rate.
C5_Witness ==
    /\ pc = "done"
    /\ irr # None
    /\ cash_flows # <<0>> /\ cash_flows # <<0, 0>>
    /\ ProductSign(npv_at(Low0, cash_flows), npv_at(High0, cash_flows)) = 0

-----------------------------------------------------------------------------
(* compute_payback_period *)

\* Largest magnitude of an entry, and largest length, of the series offered to
\* compute_payback_period.
MaxPayCash == 2
MaxPayLen == 3

\* The concrete scenario of the specification: payback 2.0 exactly.
PaybackExample == <<-1000, 500, 500, 500>>

\* The loop with the test "cumulative > 0" in place of "cumulative >= 0".
RECURSIVE PaybackLoop_StrictCross(_, _, _)
PaybackLoop_StrictCross(cfs, t, prev_cumulative) ==
    IF t >= Len(cfs) THEN None
    ELSE LET cumulative == prev_cumulative + cfs[t + 1]
             cash_this_year == cfs[t + 1]
         IN  IF cumulative > 0
             THEN IF t = 0 THEN <<0, 1>>
                  ELSE IF cash_this_year = 0 THEN <<t, 1>>
                  ELSE Norm((t - 1) * cash_this_year + (0 - prev_cumulative),
                            cash_this_year)
             ELSE PaybackLoop_StrictCross(cfs, t + 1, cumulative)

compute_payback_period_StrictCross(cfs) == PaybackLoop_StrictCross(cfs, 0, 0)

\* The loop with the fraction inverted: cash_this_year / (0 - prev_cumulative).
RECURSIVE PaybackLoop_Inverted(_, _, _)
PaybackLoop_Inverted(cfs, t, prev_cumulative) ==
    IF t >= Len(cfs) THEN None
    ELSE LET cumulative == prev_cumulative + cfs[t + 1]
             cash_this_year == cfs[t + 1]
         IN  IF cumulative >= 0
             THEN IF t = 0 THEN <<0, 1>>
                  ELSE IF cash_this_year = 0 THEN <<t, 1>>
                  ELSE Norm((t - 1) * (0 - prev_cumulative) + cash_this_year,
                            0 - prev_cumulative)
             ELSE PaybackLoop_Inverted(cfs, t + 1, cumulative)

compute_payback_period_Inverted(cfs) == PaybackLoop_Inverted(cfs, 0, 0)

\* The loop with the year counted from t in place of t - 1.
RECURSIVE PaybackLoop_YearOff(_, _, _)
PaybackLoop_YearOff(cfs, t, prev_cumulative) ==
    IF t >= Len(cfs) THEN None
    ELSE LET cumulative == prev_cumulative + cfs[t + 1]
             cash_this_year == cfs[t + 1]
         IN  IF cumulative >= 0
             THEN IF t = 0 THEN <<0, 1>>
                  ELSE IF cash_this_year = 0 THEN <<t, 1>>
                  ELSE Norm(t * cash_this_year + (0 - prev_cumulative),
                            cash_this_year)
             ELSE PaybackLoop_YearOff(cfs, t + 1, cumulative)

compute_payback_period_YearOff(cfs) == PaybackLoop_YearOff(cfs, 0, 0)

\* for t in range(len(cash_flows)): t is the 0-based year, cfs[t + 1] its entry.
\* The result is None or the rational (t - 1) + (0 - prev_cumulative) / cash.
RECURSIVE PaybackLoop(_, _, _)
PaybackLoop(cfs, t, prev_cumulative) ==
    IF t >= Len(cfs) THEN None
    ELSE LET cumulative == prev_cumulative + cfs[t + 1]
             cash_this_year == cfs[t + 1]
         IN  IF cumulative >= 0
             THEN IF t = 0 THEN <<0, 1>>
                  ELSE IF cash_this_year = 0 THEN <<t, 1>>
                  ELSE Norm((t - 1) * cash_this_year + (0 - prev_cumulative),
                            cash_this_year)
             ELSE PaybackLoop(cfs, t + 1, cumulative)

compute_payback_period(cfs) == PaybackLoop(cfs, 0, 0)

\* The return statement the same loop leaves by: line 66 ("year0"), line 69
\* ("safeguard"), line 71 ("interpolate") or line 72 ("none").
RECURSIVE PaybackBranch(_, _, _)
PaybackBranch(cfs, t, prev_cumulative) ==
    IF t >= Len(cfs) THEN "none"
    ELSE LET cumulative == prev_cumulative + cfs[t + 1]
             cash_this_year == cfs[t + 1]
         IN  IF cumulative >= 0
             THEN IF t = 0 THEN "year0"
                  ELSE IF cash_this_year = 0 THEN "safeguard"
                  ELSE "interpolate"
             ELSE PaybackBranch(cfs, t + 1, cumulative)

\* All series of length n with entries in S.
SeriesOf(S, n) == [1..n -> S]

\* Pairs (a, b) of series of one length with the same Year-0 entry and every
\* later entry of b at least the matching entry of a; and the example.
PayInputs ==
    {<<PaybackExample, PaybackExample>>} \cup
    UNION {
        {<<a, b>> \in SeriesOf(-MaxPayCash..MaxPayCash, n)
                        \X SeriesOf(-MaxPayCash..MaxPayCash, n) :
            /\ a[1] = b[1]
            /\ \A i \in 2..n : b[i] >= a[i]}
        : n \in 1..MaxPayLen}

PayInit ==
    /\ pc = "start"
    /\ \E ab \in PayInputs : cash_flows = ab[1] /\ cash_flows_b = ab[2]
    /\ payback = None
    /\ payback_b = None
    /\ payback_branch = None
    /\ IrrIdle /\ NpvIdle /\ CsatIdle /\ CalcIdle /\ SessionIdle
    /\ PagesIdle

\* payback = compute_payback_period(cash_flows), for both series.
PaybackCompute ==
    /\ pc = "start"
    /\ payback' = compute_payback_period(cash_flows)
    /\ payback_b' = compute_payback_period(cash_flows_b)
    /\ payback_branch' = <<PaybackBranch(cash_flows, 0, 0)>>
    /\ pc' = "done"
    /\ UNCHANGED <<cash_flows, cash_flows_b, irrVars, npvVars, csatVars, calcVars,
                   sessionVars>>
    /\ UNCHANGED pageVars

PayNext == PaybackCompute

SpecPayback == PayInit /\ [][PayNext]_vars

\* Sum of the entries of years 0..t of a series.
RECURSIVE PrefixSum(_, _)
PrefixSum(cfs, t) == IF t < 0 THEN 0 ELSE PrefixSum(cfs, t - 1) + cfs[t + 1]

\* The years at which the cumulative total is >= 0.
Crossings(cfs) == {t \in 0..(Len(cfs) - 1) : PrefixSum(cfs, t) >= 0}

FirstCrossing(cfs) ==
    CHOOSE t \in Crossings(cfs) : \A u \in Crossings(cfs) : t <= u

\* C3: at the first year t whose cumulative total is >= 0 the payback is 0 if
\* t = 0 and (t-1) + (0 - prev_cumulative)/cash_flows[t] otherwise; it is None
\* exactly when no prefix has a total >= 0; and [-1000, 500, 500, 500] gives 2.
C3_PaybackValue ==
    pc = "done" =>
        /\ (payback = None <=> Crossings(cash_flows) = {})
        /\ Crossings(cash_flows) # {} =>
              LET t == FirstCrossing(cash_flows)
                  cash == cash_flows[t + 1]
              IN  IF t = 0 THEN payback[1] = 0
                  ELSE payback[1] * cash
                          = ((t - 1) * cash - PrefixSum(cash_flows, t - 1)) * payback[2]
        /\ cash_flows = PaybackExample => payback = <<2, 1>>

\* C3 witness: the example series has been evaluated and pays back in year 2.
C3_Witness ==
    pc = "done" /\ cash_flows = PaybackExample /\ payback # None

\* C4: with the same Year-0 entry and no later entry smaller, the payback of
\* the second series is never larger than that of the first (None counts as
\* larger than every number).
C4_PaybackMonotone ==
    pc = "done" =>
        \/ payback = None
        \/ payback_b # None /\ RatLeq(payback_b, payback)

\* C4 witness: two different series that both pay back, the second sooner.
C4_Witness ==
    /\ pc = "done"
    /\ cash_flows # cash_flows_b
    /\ payback # None /\ payback_b # None
    /\ RatLess(payback_b, payback)

-----------------------------------------------------------------------------
(* compute_npv applied at two rates *)

\* Largest magnitude of an entry, and largest length, of the series offered to
\* compute_npv; the rates offered are k / NpvRateDen for
\* -NpvRateDen < k <= MaxRateNum (every rate is above -1).
MaxNpvCash == 2
MaxNpvLen == 3
NpvRateDen == 4
MaxRateNum == 6

NpvRates == (1 - NpvRateDen)..MaxRateNum

NpvInit ==
    /\ pc = "start"
    /\ cash_flows \in UNION {SeriesOf(-MaxNpvCash..MaxNpvCash, n) : n \in 1..MaxNpvLen}
    /\ rate1 \in NpvRates
    /\ rate2 \in NpvRates
    /\ rate1 <= rate2
    /\ npv1 = None
    /\ npv2 = None
    /\ IrrIdle /\ PayIdle /\ CsatIdle /\ CalcIdle /\ SessionIdle
    /\ PagesIdle

\* npv = utils.compute_npv(discount_rate, cash_flows), at both rates.
NpvCompute ==
    /\ pc = "start"
    /\ npv1' = compute_npv(<<rate1, NpvRateDen>>, cash_flows)
    /\ npv2' = compute_npv(<<rate2, NpvRateDen>>, cash_flows)
    /\ pc' = "done"
    /\ UNCHANGED <<cash_flows, rate1, rate2, irrVars, payVars, csatVars, calcVars,
                   sessionVars>>
    /\ UNCHANGED pageVars

NpvNext == NpvCompute

SpecNpv == NpvInit /\ [][NpvNext]_vars

\* A negative Year-0 entry and non-negative later entries.
Conventional(cfs) == cfs[1] < 0 /\ \A i \in 2..Len(cfs) : cfs[i] >= 0

\* C9: at rate 0 the NPV is the arithmetic sum of the series.
C9_NpvAtZero ==
    (pc = "done" /\ rate1 = 0) =>
        RatEq(npv1, <<PrefixSum(cash_flows, Len(cash_flows) - 1), 1>>)

\* C9 witness: a series of several non-zero entries evaluated at rate 0.
C9_Witness ==
    /\ pc = "done" /\ rate1 = 0
    /\ Len(cash_flows) = MaxNpvLen
    /\ \A i \in 1..Len(cash_flows) : cash_flows[i] # 0

\* C10 as stated: for a negative Year-0 entry and non-negative later entries,
\* and rates -1 < r1 < r2, NPV(r1) > NPV(r2).
C10_StrictlyDecreasing ==
    (pc = "done" /\ Conventional(cash_flows) /\ rate1 < rate2) =>
        RatLess(npv2, npv1)

\* C10 amended: under the same conditions NPV(r1) >= NPV(r2).
C10_Decreasing ==
    (pc = "done" /\ Conventional(cash_flows) /\ rate1 < rate2) =>
        RatLeq(npv2, npv1)

\* C10 witness: a series with a positive later entry at two different rates.
C10_Witness ==
    /\ pc = "done" /\ Conventional(cash_flows) /\ rate1 < rate2
    /\ \E i \in 2..Len(cash_flows) : cash_flows[i] > 0
    /\ RatLess(npv2, npv1)

-----------------------------------------------------------------------------
(* CSAT sentiment distribution: csat_utils.apply_distribution and the copy of
   it in csat_debt_calculator *)

\* Largest expected total of responses offered.
MaxTotal == 100

sentiment_options ==
    <<"Customers mostly happy", "Customer ambivalent", "Customers mostly unhappy">>

\* A label of earlier versions, which is no key of SENTIMENT_PRESETS.
LegacyLabel == "Customers as happy as necessary"

\* SENTIMENT_PRESETS.get(label): (p_happy, p_neutral, p_sad) as rationals, or None.
SENTIMENT_PRESETS(label) ==
    CASE label = "Customers mostly happy" -> <<<<6, 10>>, <<3, 10>>, <<1, 10>>>>
      [] label = "Customer ambivalent" -> <<<<1, 3>>, <<1, 3>>, <<1, 3>>>>
      [] label = "Customers mostly unhappy" -> <<<<1, 10>>, <<3, 10>>, <<6, 10>>>>
      [] OTHER -> None

\* int(round(n * p)) for n >= 0 and a rational p: Python rounds a half to even.
RoundProduct(n, p) ==
    LET num == n * p[1]
        q == num \div p[2]
        r == num % p[2]
    IN  IF 2 * r > p[2] THEN q + 1
        ELSE IF 2 * r < p[2] THEN q
        ELSE IF q % 2 = 0 THEN q ELSE q + 1

Max(a, b) == IF a >= b THEN a ELSE b

\* new_h, new_n rounded, new_s the remainder; a negative remainder is set to 0
\* and neutral takes max(0, expected - new_h).
Distribute(expected, dist) ==
    LET new_h == RoundProduct(expected, dist[1])
        new_n == RoundProduct(expected, dist[2])
        new_s == expected - new_h - new_n
    IN  IF new_s < 0 THEN <<new_h, Max(0, expected - new_h), 0>>
        ELSE <<new_h, new_n, new_s>>

\* The sad count rounded from its own share instead of taken as the remainder.
apply_distribution_RoundAll(expected, label) ==
    LET dist == SENTIMENT_PRESETS(label)
    IN  IF dist = None \/ expected <= 0 THEN <<0, 0, 0>>
        ELSE <<RoundProduct(expected, dist[1]), RoundProduct(expected, dist[2]),
               RoundProduct(expected, dist[3])>>

apply_distribution(expected, label) ==
    LET dist == SENTIMENT_PRESETS(label)
    IN  IF dist = None \/ expected <= 0 THEN <<0, 0, 0>>
        ELSE Distribute(expected, dist)

\* The if / elif / else of the page: any other label takes the unhappy shares.
PageShares(label) ==
    IF label = "Customers mostly happy" THEN <<<<6, 10>>, <<3, 10>>, <<1, 10>>>>
    ELSE IF label = "Customer ambivalent" THEN <<<<1, 3>>, <<1, 3>>, <<1, 3>>>>
    ELSE <<<<1, 10>>, <<3, 10>>, <<6, 10>>>>

\* st.session_state.get("csat_happy_cnt", 50), (.., 30), (.., 20)
SessionCountsOrDefault(counts) == IF counts = None THEN <<50, 30, 20>> ELSE counts

\* The fallback snap applied whether or not manual override is set.
CountsAfterRender_IgnoreOverride(counts, override, expected, label) ==
    LET curr == SessionCountsOrDefault(counts)
    IN  IF counts = None \/ curr[1] + curr[2] + curr[3] # expected
        THEN Distribute(expected, PageShares(label))
        ELSE counts

\* Lines 905-958 of csat_debt_calculator: the fallback snap, then the seeding
\* of counts that are not in the session yet.
CountsAfterRender(counts, override, expected, label) ==
    LET curr == SessionCountsOrDefault(counts)
        snapped ==
            IF ~override /\ curr[1] + curr[2] + curr[3] # expected
            THEN Distribute(expected, PageShares(label))
            ELSE counts
    IN  IF snapped = None THEN Distribute(expected, PageShares(label)) ELSE snapped

CsatInit ==
    /\ pc = "start"
    /\ expected_total \in 0..MaxTotal
    /\ sentiment \in {sentiment_options[i] : i \in 1..3} \cup {LegacyLabel}
    /\ dist_counts = None
    /\ session_counts = None
    /\ manual_override = FALSE
    /\ cash_flows = None
    /\ IrrIdle /\ PayIdle /\ NpvIdle /\ CalcIdle /\ SessionIdle
    /\ PagesIdle

\* counts = csat_utils.apply_distribution(expected_total, sentiment_label)
ApplyDistribution ==
    /\ dist_counts = None
    /\ dist_counts' = apply_distribution(expected_total, sentiment)
    /\ UNCHANGED <<pc, cash_flows, expected_total, sentiment, session_counts,
                   manual_override, irrVars, payVars, npvVars, calcVars, sessionVars>>
    /\ UNCHANGED pageVars

\* A render of the CSAT page with the radio on one of its options.
RenderCounts ==
    /\ sentiment \in {sentiment_options[i] : i \in 1..3}
    /\ session_counts' =
          CountsAfterRender(session_counts, manual_override, expected_total, sentiment)
    /\ pc' = "done"
    /\ UNCHANGED <<cash_flows, expected_total, sentiment, dist_counts,
                   manual_override, irrVars, payVars, npvVars, calcVars, sessionVars>>
    /\ UNCHANGED pageVars

CsatNext == ApplyDistribution \/ RenderCounts

SpecCsat == CsatInit /\ [][CsatNext]_vars

\* Three non-negative counts that add up to n.
Conserves(counts, n) ==
    /\ counts[1] + counts[2] + counts[3] = n
    /\ counts[1] >= 0 /\ counts[2] >= 0 /\ counts[3] >= 0

\* C2: for every expected_total >= 0 and each of the three presets the counts
\* computed (by apply_distribution, and by the page's snap) are non-negative
\* and add up to expected_total exactly.
C2_CountConservation ==
    /\ (dist_counts # None /\ sentiment # LegacyLabel) =>
          Conserves(dist_counts, expected_total)
    /\ (session_counts # None /\ ~manual_override) =>
          Conserves(session_counts, expected_total)

\* C2 witness: 5 responses, mostly happy: 3.0 and 1.5 round to 3 and 2, and
\* nothing is left for sad.
C2_Witness ==
    /\ expected_total = 5
    /\ sentiment = "Customers mostly happy"
    /\ dist_counts = <<3, 2, 0>>
    /\ session_counts = <<3, 2, 0>>

-----------------------------------------------------------------------------
(* The calculator page: costs, debts and the Calculate Business Case handler *)

\* Calculate clicks the model follows.
MaxRuns == 2

\* years = 5
Years == 5

RECURSIVE SumSeq(_)
SumSeq(q) == IF q = <<>> THEN 0 ELSE q[1] + SumSeq(Tail(q))

\* The four cost widgets of the selected strategy: three one-time, one annual.
StrategyCosts(i) == IF i.acquisition_strategy = "Buy" THEN i.buy ELSE i.build

\* project_cost = tool + integration + training (Buy), or
\* dev effort + opportunity + training (Build).
StrategyProjectCost(i) ==
    StrategyCosts(i)[1] + StrategyCosts(i)[2] + StrategyCosts(i)[3]

\* annual_run_cost = ongoing support of the selected strategy.
StrategyRunCost(i) == StrategyCosts(i)[4]

\* impact_pct = max(0.0, 1.0 - (automation_coverage_pct / 100.0))
ImpactPct(coverage_pct) ==
    LET x == RatSub(Rat(1), Norm(coverage_pct, 100))
    IN  IF x[1] < 0 THEN Rat(0) ELSE x

\* The residual widget read whether or not remediation is enabled.
DebtAnnualAfter_IgnoreToggle(d, coverage_pct) ==
    IF ~d.include THEN Rat(0)
    ELSE RatMul(RatMul(Rat(d.base_annual), ImpactPct(coverage_pct)),
                Norm(d.residual_pct, 100))

\* tech_debt_annual_after / csat_debt_annual_after: 0.0 unless the debt is
\* included; else base * impact_pct * (residual_pct / 100.0), residual_pct
\* being 100.0 unless remediation is enabled.
DebtAnnualAfter(d, coverage_pct) ==
    IF ~d.include THEN Rat(0)
    ELSE LET residual_pct == IF d.remediation THEN d.residual_pct ELSE 100
         IN  RatMul(RatMul(Rat(d.base_annual), ImpactPct(coverage_pct)),
                    Norm(residual_pct, 100))

\* The remediation cost counted for every included debt.
DebtRemediationOneTime_IgnoreToggle(d) ==
    IF d.include THEN d.remediation_one_time ELSE 0

\* tech_debt_remediation_one_time / csat_debt_remediation_one_time: 0.0 unless
\* the debt is included and its remediation checkbox is set.
DebtRemediationOneTime(d) ==
    IF d.include /\ d.remediation THEN d.remediation_one_time ELSE 0

\* The series with one year too few: range(years - 1).
BuildCashFlows_OneShort(project_cost, annual_net_benefit, years) ==
    <<Rat(0 - project_cost)>> \o [k \in 1..(years - 1) |-> annual_net_benefit]

\* cash_flows = [-project_cost]; for _ in range(years): append(annual_net_benefit)
BuildCashFlows(project_cost, annual_net_benefit, years) ==
    <<Rat(0 - project_cost)>> \o [k \in 1..years |-> annual_net_benefit]

\* The body of "if st.button('Calculate Business Case')", up to the cash flows.
\* npv, payback and irr are then computed from cash_flows by compute_npv,
\* compute_payback_period and compute_irr, which the handler only displays.
CalculateBusinessCase(i) ==
    LET manual_total_minutes == SumSeq(i.manual_minutes)
        auto_total_minutes == SumSeq(i.auto_minutes)
        minutes_saved_per_change == manual_total_minutes - auto_total_minutes
        hours_saved_per_change == Norm(minutes_saved_per_change, 60)
        tasks_per_year == i.tasks_per_month * 12
        automation_coverage == Norm(i.automation_coverage_pct, 100)
        effective_changes_per_year == RatMul(Rat(tasks_per_year), automation_coverage)
        annual_hours_saved == RatMul(hours_saved_per_change, effective_changes_per_year)
        annual_cost_savings == RatMul(annual_hours_saved, Rat(i.hourly_rate))
        annual_additional_benefits == SumSeq(i.benefits)
        annual_total_benefit == RatAdd(annual_cost_savings, Rat(annual_additional_benefits))
        tech_debt_annual_after == DebtAnnualAfter(i.tech, i.automation_coverage_pct)
        csat_debt_annual_after == DebtAnnualAfter(i.csat, i.automation_coverage_pct)
        tech_debt_remediation_one_time == DebtRemediationOneTime(i.tech)
        csat_debt_remediation_one_time == DebtRemediationOneTime(i.csat)
        project_cost ==
            StrategyProjectCost(i)
                + (tech_debt_remediation_one_time + csat_debt_remediation_one_time)
        annual_run_cost_effective ==
            RatAdd(RatAdd(Rat(StrategyRunCost(i)), tech_debt_annual_after),
                   csat_debt_annual_after)
        annual_net_benefit == RatSub(annual_total_benefit, annual_run_cost_effective)
    IN  [project_cost |-> project_cost,
         annual_run_cost_effective |-> annual_run_cost_effective,
         annual_total_benefit |-> annual_total_benefit,
         annual_net_benefit |-> annual_net_benefit,
         tech_debt_annual_after |-> tech_debt_annual_after,
         csat_debt_annual_after |-> csat_debt_annual_after,
         tech_debt_remediation_one_time |-> tech_debt_remediation_one_time,
         csat_debt_remediation_one_time |-> csat_debt_remediation_one_time,
         cash_flows |-> BuildCashFlows(project_cost, annual_net_benefit, Years)]

\* Values offered for the widgets.
TechDebts ==
    [include : BOOLEAN, base_annual : {20000}, remediation : BOOLEAN,
     remediation_one_time : {0, 10000}, residual_pct : {0, 25}]
CsatDebts ==
    [include : BOOLEAN, base_annual : {15000}, remediation : BOOLEAN,
     remediation_one_time : {5000}, residual_pct : {20, 100}]
CalcInputs ==
    [acquisition_strategy : {"Buy", "Build"},
     buy : {<<35000, 15000, 5000, 6000>>, <<0, 0, 0, 0>>},
     build : {<<40000, 10000, 3000, 8000>>, <<1000, 0, 500, 0>>},
     automation_coverage_pct : {0, 50, 80, 100},
     tasks_per_month : {0, 1},
     hourly_rate : {75},
     manual_minutes : {<<10, 15, 10, 15, 15, 10, 15, 10>>},
     auto_minutes : {<<5, 5, 5, 5, 5, 5, 5, 6>>, <<20, 20, 20, 20, 20, 20, 20, 20>>},
     benefits : {<<>>, <<10000, 2500>>},
     tech : TechDebts,
     csat : CsatDebts]

CalcInit ==
    /\ pc = "start"
    /\ inp \in CalcInputs
    /\ out = None
    /\ calc_runs = 0
    /\ cash_flows = None
    /\ IrrIdle /\ PayIdle /\ NpvIdle /\ CsatIdle /\ SessionIdle
    /\ PagesIdle

\* A click on Calculate Business Case: the script runs again from the top with
\* the widget values of inp, and the handler computes the results afresh.
Calculate ==
    /\ calc_runs < MaxRuns
    /\ out' = CalculateBusinessCase(inp)
    /\ cash_flows' = out'.cash_flows
    /\ calc_runs' = calc_runs + 1
    /\ pc' = "done"
    /\ UNCHANGED <<inp, irrVars, payVars, npvVars, csatVars, sessionVars>>
    /\ UNCHANGED pageVars

CalcNext == Calculate

SpecCalc == CalcInit /\ [][CalcNext]_vars

\* C6: the series built on Calculate has length years + 1, its Year-0 entry is
\* the negated effective project cost, and each later entry is
\* annual_total_benefit - annual_run_cost_effective, unrounded.
C6_CashFlowSeries ==
    out # None =>
        /\ Len(cash_flows) = Years + 1
        /\ cash_flows[1] = Rat(0 - out.project_cost)
        /\ \A k \in 2..Len(cash_flows) :
              /\ cash_flows[k] = out.annual_net_benefit
              /\ RatEq(RatAdd(cash_flows[k], out.annual_run_cost_effective),
                       out.annual_total_benefit)

\* C6 witness: a computed series whose annual net benefit is no whole number.
C6_Witness ==
    /\ out # None
    /\ Len(cash_flows) = Years + 1
    /\ out.annual_net_benefit[2] # 1
    /\ out.project_cost > 0

\* The claimed debt formula, from the inputs: base * max(0, 100 - coverage)
\* * residual / 10000, the residual being 100 without remediation.
ClaimedAnnualAfter(d, coverage_pct) ==
    <<d.base_annual * Max(0, 100 - coverage_pct)
        * (IF d.remediation THEN d.residual_pct ELSE 100), 10000>>

ClaimedRemediation(d) ==
    IF d.include /\ d.remediation THEN d.remediation_one_time ELSE 0

\* C8: effective project cost = strategy one-time cost + technical remediation
\* + CSAT remediation (each 0 unless that debt is included and remediated);
\* effective annual run cost = strategy run cost + technical annual_after
\* + CSAT annual_after (each 0 when that debt is not included); the same after
\* every Calculate, so remediation is added once per computation.
C8_EffectiveCosts ==
    out # None =>
        /\ out.project_cost =
              StrategyProjectCost(inp) + ClaimedRemediation(inp.tech)
                  + ClaimedRemediation(inp.csat)
        /\ out.tech_debt_remediation_one_time = ClaimedRemediation(inp.tech)
        /\ out.csat_debt_remediation_one_time = ClaimedRemediation(inp.csat)
        /\ RatEq(out.annual_run_cost_effective,
                 RatAdd(Rat(StrategyRunCost(inp)),
                        RatAdd(out.tech_debt_annual_after, out.csat_debt_annual_after)))
        /\ ~inp.tech.include => out.tech_debt_annual_after = Rat(0)
        /\ ~inp.csat.include => out.csat_debt_annual_after = Rat(0)

\* C8 witness: a second Calculate with both debts included and remediated.
C8_Witness ==
    /\ out # None
    /\ calc_runs = 2
    /\ inp.tech.include /\ inp.tech.remediation /\ inp.tech.remediation_one_time > 0
    /\ inp.csat.include /\ inp.csat.remediation
    /\ out.project_cost = StrategyProjectCost(inp) + 15000

-----------------------------------------------------------------------------
(* The CSAT Debt Calculator tab: csat_debt_calculator, one script run for
   every change of a widget *)

\* Largest number of responses per year, and of expected responses, offered.
MaxResponses == 3

\* A sign slip: (sad - happy) / total.
ces_Swapped(happy, sad, total) ==
    IF total <= 0 THEN None ELSE Norm(sad - happy, total)

\* csat_utils.ces, and lines 1014-1017 of the page: None for no responses,
\* else (happy - sad) / total.
ces(happy, sad, total) ==
    IF total <= 0 THEN None ELSE Norm(happy - sad, total)

\* (happy * w_happy) + (neutral * w_neutral) + (sad * w_sad)
total_cost(counts, w) == counts[1] * w[1] + counts[2] * w[2] + counts[3] * w[3]

\* An average of 0.0 instead of None for no responses.
avg_cost_per_response_ZeroDefault(total_cost_value, total_responses) ==
    IF total_responses <= 0 THEN Rat(0) ELSE Norm(total_cost_value, total_responses)

\* csat_utils.avg_cost_per_response, and lines 1020-1022 of the page.
avg_cost_per_response(total_cost_value, total_responses) ==
    IF total_responses <= 0 THEN None ELSE Norm(total_cost_value, total_responses)

\* (avg_cost_per_response or 0.0) * responses_per_year
annual_csat_cost(avg_cost_per_resp, responses_per_year) ==
    RatMul(IF avg_cost_per_resp = None \/ avg_cost_per_resp[1] = 0
           THEN Rat(0) ELSE avg_cost_per_resp,
           responses_per_year)

\* responses_per_year is kept in halves; int(round(responses_per_year)).
computed_expected_total(halves) == RoundProduct(halves, <<1, 2>>)

\* Everything derived from the expected total instead of the entered counts.
CsatResults_FromExpected(counts, expected, w, halves) ==
    LET total_responses == expected
        avg == avg_cost_per_response(total_cost(counts, w), total_responses)
    IN  [counts |-> counts,
         w |-> w,
         actual_total |-> total_responses,
         mismatch |-> FALSE,
         ces |-> ces(counts[1], counts[3], total_responses),
         total_cost |-> total_cost(counts, w),
         avg_cost_per_response |-> avg,
         annual_csat_cost |-> annual_csat_cost(avg, <<halves, 2>>)]

\* Lines 998-1025: the values of the three count widgets, the mismatch
\* message, and the metrics of the sample set.
CsatResults(counts, expected, w, halves) ==
    LET actual_total == counts[1] + counts[2] + counts[3]
        total_responses == actual_total
        avg == avg_cost_per_response(total_cost(counts, w), total_responses)
    IN  [counts |-> counts,
         w |-> w,
         actual_total |-> actual_total,
         mismatch |-> (actual_total # expected),
         ces |-> ces(counts[1], counts[3], total_responses),
         total_cost |-> total_cost(counts, w),
         avg_cost_per_response |-> avg,
         annual_csat_cost |-> annual_csat_cost(avg, <<halves, 2>>)]

\* The radio's on_change callback, run before the script: nothing under manual
\* override or without expected responses, else the preset's distribution.
csat_apply_dist_on_change(counts, override, expected, label) ==
    IF override \/ expected <= 0 THEN counts
    ELSE Distribute(expected, PageShares(label))

\* The first value of the radio: the stored label, the legacy label taken
\* as "Customer ambivalent", anything unknown as the first option.
default_sentiment(stored) ==
    IF stored = LegacyLabel THEN "Customer ambivalent"
    ELSE IF \E k \in 1..3 : sentiment_options[k] = stored THEN stored
    ELSE sentiment_options[1]

\* Weights offered for the three weight widgets; the first is the default.
CsatWeights == {<<0, 15, 25>>, <<1, 2, 4>>}

CsatPageInit ==
    /\ pc = "start"
    /\ responses_year \in 0..(2 * MaxResponses)
    /\ auto_expected = TRUE
    /\ expected_total = computed_expected_total(responses_year)
    /\ \E stored \in {sentiment_options[k] : k \in 1..3} \cup {LegacyLabel, ""} :
          sentiment = default_sentiment(stored)
    /\ dist_counts = None
    /\ session_counts = None
    /\ manual_override = FALSE
    /\ csat_w = <<0, 15, 25>>
    /\ csat_out = None
    /\ dataA = None /\ dataB = None /\ rows = None
    /\ loaded_scenario = None /\ scenario_json = None
    /\ cash_flows = None
    /\ IrrIdle /\ PayIdle /\ NpvIdle /\ CalcIdle
    /\ PagesIdle

\* One run of the script body with the session as the event left it: the
\* counts are snapped or seeded, the widgets return them, the results follow.
CsatRun(event, counts, override, expected, label, halves) ==
    /\ pc' = event
    /\ session_counts' = CountsAfterRender(counts, override, expected, label)
    /\ csat_out' = CsatResults(session_counts', expected, csat_w, halves)
    /\ UNCHANGED <<cash_flows, dist_counts, dataA, dataB, rows, loaded_scenario,
                   scenario_json, irrVars, payVars, npvVars, calcVars>>
    /\ UNCHANGED pageVars

\* The tab is shown for the first time.
FirstRender ==
    /\ pc = "start"
    /\ CsatRun("first_render", session_counts, manual_override, expected_total,
               sentiment, responses_year)
    /\ UNCHANGED <<expected_total, sentiment, manual_override, csat_w,
                   responses_year, auto_expected>>


\* One of the volume inputs (changes per month, responses per change, response
\* rate) changes; with auto-calculation the expected total follows.
ChangeVolumes ==
    /\ pc # "start"
    /\ \E r \in 0..(2 * MaxResponses) :
          /\ r # responses_year
          /\ responses_year' = r
          /\ expected_total' =
                IF auto_expected THEN computed_expected_total(r) ELSE expected_total
          /\ CsatRun("volumes", session_counts, manual_override, expected_total',
                     sentiment, r)
    /\ UNCHANGED <<sentiment, manual_override, csat_w, auto_expected>>

\* The auto-calculate checkbox: set, the expected total is the computed one;
\* cleared, the number input starts from the stored expected total.
ToggleAutoExpected ==
    /\ pc # "start"
    /\ auto_expected' = ~auto_expected
    /\ expected_total' =
          IF auto_expected' THEN computed_expected_total(responses_year)
          ELSE expected_total
    /\ CsatRun("auto_expected", session_counts, manual_override, expected_total',
               sentiment, responses_year)
    /\ UNCHANGED <<sentiment, manual_override, csat_w, responses_year>>

\* The expected total typed in, the auto-calculate checkbox being cleared.
SetExpectedTotal ==
    /\ pc # "start"
    /\ ~auto_expected
    /\ \E n \in 0..MaxResponses :
          /\ n # expected_total
          /\ expected_total' = n
          /\ CsatRun("expected_total", session_counts, manual_override, n,
                     sentiment, responses_year)
    /\ UNCHANGED <<sentiment, manual_override, csat_w, responses_year, auto_expected>>

\* Another option of the sentiment radio: the callback, then the script.
SelectSentiment ==
    /\ pc # "start"
    /\ \E k \in 1..3 :
          /\ sentiment_options[k] # sentiment
          /\ sentiment' = sentiment_options[k]
          /\ CsatRun("select_sentiment",
                     csat_apply_dist_on_change(session_counts, manual_override,
                                               expected_total, sentiment'),
                     manual_override, expected_total, sentiment', responses_year)
    /\ UNCHANGED <<expected_total, manual_override, csat_w, responses_year,
                   auto_expected>>

\* The manual override checkbox.
ToggleManualOverride ==
    /\ pc # "start"
    /\ manual_override' = ~manual_override
    /\ CsatRun("manual_override", session_counts, manual_override', expected_total,
               sentiment, responses_year)
    /\ UNCHANGED <<expected_total, sentiment, csat_w, responses_year, auto_expected>>

\* One of the Happy / Neutral / Sad inputs edited; they are enabled under
\* manual override only and take 0..expected_total each.
EditCounts ==
    /\ pc # "start"
    /\ manual_override
    /\ \E k \in 1..3, v \in 0..expected_total :
          /\ v # session_counts[k]
          /\ CsatRun("edit_counts", [session_counts EXCEPT ![k] = v],
                     manual_override, expected_total, sentiment, responses_year)
    /\ UNCHANGED <<expected_total, sentiment, manual_override, csat_w,
                   responses_year, auto_expected>>

\* A weight input edited: the metrics of this run still use the weights read
\* from the session at line 1009; the new ones are stored at the end.
ChangeWeights ==
    /\ pc # "start"
    /\ \E w \in CsatWeights :
          /\ w # csat_w
          /\ csat_w' = w
    /\ CsatRun("weights", session_counts, manual_override, expected_total,
               sentiment, responses_year)
    /\ UNCHANGED <<expected_total, sentiment, manual_override, responses_year,
                   auto_expected>>

CsatPageNext ==
    \/ FirstRender \/ ChangeVolumes \/ ToggleAutoExpected \/ SetExpectedTotal
    \/ SelectSentiment \/ ToggleManualOverride \/ EditCounts \/ ChangeWeights

SpecCsatPage == CsatPageInit /\ [][CsatPageNext]_vars


\* Sum of three counts.
CountSum(counts) == counts[1] + counts[2] + counts[3]

\* C11: with total = happy + neutral + sad > 0 and non-negative counts, the
\* Customer Effort Score shown is (happy - sad) / total, and it lies in [-1, 1].
C11_CesRange ==
    csat_out # None =>
        LET c == csat_out.counts
            total == CountSum(c)
        IN  /\ c[1] >= 0 /\ c[2] >= 0 /\ c[3] >= 0
            /\ total > 0 =>
                  /\ csat_out.ces # None
                  /\ csat_out.ces[1] * total = (c[1] - c[3]) * csat_out.ces[2]
                  /\ 0 - csat_out.ces[2] <= csat_out.ces[1]
                  /\ csat_out.ces[1] <= csat_out.ces[2]

\* C11 witness: entered counts with more sad than happy and some neutral
\* responses: a score strictly between -1 and 0.
C11_Witness ==
    /\ csat_out # None
    /\ csat_out.counts[2] > 0
    /\ csat_out.counts[3] > csat_out.counts[1]
    /\ csat_out.ces # None
    /\ csat_out.ces[1] < 0 /\ 0 - csat_out.ces[2] < csat_out.ces[1]

\* C12: with no responses (happy = neutral = sad = 0) the score and the
\* average cost per response are None and the annual CSAT cost is 0, for
\* every responses_per_year and every weight triple.
C12_UndefinedAreValues ==
    (csat_out # None /\ csat_out.counts = <<0, 0, 0>>) =>
        /\ csat_out.ces = None
        /\ csat_out.avg_cost_per_response = None
        /\ csat_out.annual_csat_cost = Rat(0)

\* C12 witness: all counts 0 under manual override while responses are
\* expected and the weights are not the default ones.
C12_Witness ==
    /\ csat_out # None
    /\ csat_out.counts = <<0, 0, 0>>
    /\ manual_override /\ expected_total > 0 /\ responses_year > 0
    /\ csat_out.w # <<0, 15, 25>>
    /\ csat_out.annual_csat_cost = Rat(0)

C14_OverrideUsesEntered ==
    (csat_out # None /\ manual_override
        /\ CountSum(session_counts) # expected_total) =>
        LET c == session_counts
            total == CountSum(c)
        IN  /\ csat_out.mismatch
            /\ csat_out.counts = c
            /\ csat_out.actual_total = total
            /\ csat_out.total_cost =
                  c[1] * csat_out.w[1] + c[2] * csat_out.w[2] + c[3] * csat_out.w[3]
            /\ total > 0 =>
                  /\ csat_out.ces # None
                  /\ csat_out.ces[1] * total = (c[1] - c[3]) * csat_out.ces[2]
                  /\ csat_out.avg_cost_per_response # None
                  /\ csat_out.avg_cost_per_response[1] * total =
                        csat_out.total_cost * csat_out.avg_cost_per_response[2]
            /\ total = 0 =>
                  csat_out.ces = None /\ csat_out.avg_cost_per_response = None

\* C14 witness: entered counts 1, 0, 1 while 3 responses are expected.
C14_Witness ==
    /\ pc = "edit_counts"
    /\ manual_override
    /\ expected_total = 3
    /\ session_counts = <<1, 0, 1>>
    /\ csat_out # None /\ csat_out.mismatch
    /\ csat_out.ces = <<0, 1>>
    /\ csat_out.total_cost > 0

\* C15: after every run of the page that ends with manual override off, the
\* stored counts are the selected preset's distribution over the current
\* expected total.
C15_CountsFollowPreset ==
    (csat_out # None /\ ~manual_override) =>
        session_counts = Distribute(expected_total, PageShares(sentiment))


-----------------------------------------------------------------------------
(* The comparison page, pages/02_Business_Case_Comparison.py

   A scenario document maps each key to [kind, v]: kind "num" with the number
   v in thousandths (of a dollar, of a percent for 100 * irr, of a year),
   kind "null" for JSON null and kind "missing" for an absent key.  A cell of
   the table is [kind, v]: kind "num" with v in hundredths, as the format
   .2f prints it, kind "text" for the text None, kind "empty" for "". *)

\* Fields a document may lack (absent or null) at the same time.
MaxMissing == 1

Num(v) == [kind |-> "num", v |-> v]
Null == [kind |-> "null", v |-> 0]
Missing == [kind |-> "missing", v |-> 0]
TextCell == [kind |-> "text", v |-> 0]
EmptyCell == [kind |-> "empty", v |-> 0]

\* Keys shown with add_row, and all keys shown as numbers.
MoneyKeys ==
    {"project_cost", "annual_run_cost_effective", "annual_total_benefit",
     "annual_net_benefit", "npv"}
NumericKeys == MoneyKeys \cup {"irr", "payback"}

\* "{:,.2f}".format(x) for x in thousandths: hundredths, a half to even.
Format2f(x) == IF x < 0 THEN 0 - RoundProduct(0 - x, <<1, 10>>)
               ELSE RoundProduct(x, <<1, 10>>)

\* val(d, k, default): float(v) of a number; the default for an absent key
\* and, float(None) raising TypeError, for null.
val(d, k, default) == IF d[k].kind = "num" THEN d[k].v ELSE default

\* The delta taken as A - B.
add_row_Reversed(dA, dB, key) ==
    LET a == val(dA, key, 0)
        b == val(dB, key, 0)
    IN  [a |-> Num(Format2f(a)), b |-> Num(Format2f(b)), delta |-> Num(Format2f(a - b))]

\* add_row, and the IRR row, which differs in the percent sign only.
add_row(dA, dB, key) ==
    LET a == val(dA, key, 0)
        b == val(dB, key, 0)
        delta == b - a
    IN  [a |-> Num(Format2f(a)), b |-> Num(Format2f(b)), delta |-> Num(Format2f(delta))]

\* The payback row: a number with two decimals, else str(a_pb), which is
\* None for null and for an absent key; a delta between two numbers only.
payback_row(dA, dB) ==
    LET a_pb == dA["payback"]
        b_pb == dB["payback"]
    IN  [a |-> IF a_pb.kind = "num" THEN Num(Format2f(a_pb.v)) ELSE TextCell,
         b |-> IF b_pb.kind = "num" THEN Num(Format2f(b_pb.v)) ELSE TextCell,
         delta |-> IF a_pb.kind = "num" /\ b_pb.kind = "num"
                   THEN Num(Format2f(b_pb.v - a_pb.v)) ELSE EmptyCell]

\* The table built when both files are uploaded.
comparison_rows(dA, dB) ==
    [k \in NumericKeys \cup {"acquisition_strategy"} |->
        IF k = "acquisition_strategy"
        THEN [a |-> dA[k], b |-> dB[k], delta |-> ""]
        ELSE IF k = "payback" THEN payback_row(dA, dB)
        ELSE add_row(dA, dB, k)]

\* Two computed scenarios as saved by the calculator.
ScenarioBuy ==
    [k \in NumericKeys \cup {"acquisition_strategy"} |->
        CASE k = "acquisition_strategy" -> "Buy"
          [] k = "project_cost" -> Num(55000000)
          [] k = "annual_run_cost_effective" -> Num(6000000)
          [] k = "annual_total_benefit" -> Num(21333335)
          [] k = "annual_net_benefit" -> Num(15333335)
          [] k = "npv" -> Num(3125403)
          [] k = "irr" -> Num(12235)
          [] k = "payback" -> Num(3587)]
ScenarioBuild ==
    [k \in NumericKeys \cup {"acquisition_strategy"} |->
        CASE k = "acquisition_strategy" -> "Build"
          [] k = "project_cost" -> Num(53000000)
          [] k = "annual_run_cost_effective" -> Num(8000000)
          [] k = "annual_total_benefit" -> Num(21333335)
          [] k = "annual_net_benefit" -> Num(13333335)
          [] k = "npv" -> Num(0 - 2456172)
          [] k = "irr" -> Num(8146)
          [] k = "payback" -> Num(3975)]

\* The documents offered: the computed scenarios, the first also with up to
\* MaxMissing of its numeric fields absent or null (irr and payback are null
\* when undefined), the second also without its acquisition strategy.
RECURSIVE Damaged(_, _)
Damaged(docs, n) ==
    IF n = 0 THEN docs
    ELSE Damaged(docs \cup {[d EXCEPT ![k] = x] :
                               d \in docs, k \in NumericKeys, x \in {Null, Missing}},
                 n - 1)
ScenarioDocs ==
    Damaged({ScenarioBuy}, MaxMissing)
        \cup {ScenarioBuild, [ScenarioBuild EXCEPT !["acquisition_strategy"] = ""]}

CompareInit ==
    /\ pc = "start"
    /\ dataA = None /\ dataB = None /\ rows = None
    /\ csat_w = None /\ responses_year = 0 /\ csat_out = None /\ auto_expected = TRUE
    /\ loaded_scenario = None /\ scenario_json = None
    /\ cash_flows = None
    /\ IrrIdle /\ PayIdle /\ NpvIdle /\ CsatIdle /\ CalcIdle
    /\ PagesIdle

\* A file chosen in the first uploader; the script runs again.
UploadScenarioA ==
    /\ \E d \in ScenarioDocs :
          /\ dataA' = d
          /\ rows' = IF dataB # None THEN comparison_rows(d, dataB) ELSE None
    /\ pc' = IF dataB # None THEN "table" ELSE "info"
    /\ UNCHANGED <<cash_flows, dataB, csat_w, responses_year, csat_out, auto_expected,
                   loaded_scenario, scenario_json, irrVars, payVars, npvVars,
                   csatVars, calcVars>>
    /\ UNCHANGED pageVars

\* A file chosen in the second uploader; the script runs again.
UploadScenarioB ==
    /\ \E d \in ScenarioDocs :
          /\ dataB' = d
          /\ rows' = IF dataA # None THEN comparison_rows(dataA, d) ELSE None
    /\ pc' = IF dataA # None THEN "table" ELSE "info"
    /\ UNCHANGED <<cash_flows, dataA, csat_w, responses_year, csat_out, auto_expected,
                   loaded_scenario, scenario_json, irrVars, payVars, npvVars,
                   csatVars, calcVars>>
    /\ UNCHANGED pageVars

CompareNext == UploadScenarioA \/ UploadScenarioB

SpecCompare == CompareInit /\ [][CompareNext]_vars

\* C16: for every numeric field (project cost, effective annual run cost,
\* annual total benefit, annual net benefit, NPV, IRR, payback) that both
\* documents hold, the row shows value_A, value_B and value_B - value_A, each
\* with two decimals; the acquisition strategy row shows both values and an
\* empty delta.
C16_ComparisonRows ==
    rows # None =>
        /\ rows["acquisition_strategy"] =
              [a |-> dataA["acquisition_strategy"],
               b |-> dataB["acquisition_strategy"], delta |-> ""]
        /\ \A k \in NumericKeys :
              (dataA[k].kind = "num" /\ dataB[k].kind = "num") =>
                  /\ rows[k].a = Num(Format2f(dataA[k].v))
                  /\ rows[k].b = Num(Format2f(dataB[k].v))
                  /\ rows[k].delta = Num(Format2f(dataB[k].v - dataA[k].v))

\* C16 witness: Buy against Build, all fields present: the NPV delta is
\* negative and the payback delta is 0.39 years.
C16_Witness ==
    /\ rows # None
    /\ dataA = ScenarioBuy /\ dataB = ScenarioBuild
    /\ rows["npv"].delta = Num(0 - 558158)
    /\ rows["payback"].delta = Num(39)
    /\ rows["acquisition_strategy"].delta = ""

\* C17: a field that is absent or null in either document is reported as not
\* available: the table shows no number for it on that side and no delta.
C17_MissingNotAvailable ==
    rows # None =>
        \A k \in NumericKeys :
            /\ dataA[k].kind # "num" =>
                  rows[k].a.kind # "num" /\ rows[k].delta.kind # "num"
            /\ dataB[k].kind # "num" =>
                  rows[k].b.kind # "num" /\ rows[k].delta.kind # "num"


-----------------------------------------------------------------------------
(* Saving a scenario (build_scenario_payload, json.dumps) and loading it back
   (json.loads into session loaded_scenario, read by the widgets through sv).
   json.dumps followed by json.loads gives back the numbers, booleans, texts,
   lists and None of the payload unchanged, so the document is the payload.
   An optional number is <<>> for None and <<x>> for x. *)

\* The value of a debt field that is None unless cond holds.
Opt(cond, x) == IF cond THEN <<x>> ELSE None

\* An entry of cost_breakdown.
CostItem(name, timing, amount) == [name |-> name, timing |-> timing, amount |-> amount]

\* The four items of the selected strategy, lines 1461-1482 and 1563-1584.
StrategyItems(i) ==
    IF i.acquisition_strategy = "Buy"
    THEN <<CostItem("Tool license(s)", "One-time", Rat(i.buy[1])),
           CostItem("Integration/implementation", "One-time", Rat(i.buy[2])),
           CostItem("Training", "One-time", Rat(i.buy[3])),
           CostItem("Ongoing support & maintenance", "Annual", Rat(i.buy[4]))>>
    ELSE <<CostItem("Development effort", "One-time", Rat(i.build[1])),
           CostItem("Staff opportunity cost", "One-time", Rat(i.build[2])),
           CostItem("Training", "One-time", Rat(i.build[3])),
           CostItem("Ongoing support & maintenance", "Annual", Rat(i.build[4]))>>

\* A breakdown that leaves the remediation items out.
cost_breakdown_NoRemediation(i, o) ==
    StrategyItems(i)
        \o (IF i.tech.include
            THEN <<CostItem("Technical debt (annual, adjusted by automation)",
                            "Annual", o.tech_debt_annual_after)>>
            ELSE <<>>)
        \o (IF i.csat.include
            THEN <<CostItem("CSAT debt (annual, adjusted by automation)",
                            "Annual", o.csat_debt_annual_after)>>
            ELSE <<>>)

\* cost_breakdown: the four items of the strategy, then for each included
\* debt its annual cost and, when positive, its remediation.
cost_breakdown(i, o) ==
    StrategyItems(i)
        \o (IF i.tech.include
            THEN <<CostItem("Technical debt (annual, adjusted by automation)",
                            "Annual", o.tech_debt_annual_after)>>
            ELSE <<>>)
        \o (IF i.tech.include /\ o.tech_debt_remediation_one_time > 0
            THEN <<CostItem("Technical debt remediation", "One-time",
                            Rat(o.tech_debt_remediation_one_time))>>
            ELSE <<>>)
        \o (IF i.csat.include
            THEN <<CostItem("CSAT debt (annual, adjusted by automation)",
                            "Annual", o.csat_debt_annual_after)>>
            ELSE <<>>)
        \o (IF i.csat.include /\ o.csat_debt_remediation_one_time > 0
            THEN <<CostItem("CSAT debt remediation", "One-time",
                            Rat(o.csat_debt_remediation_one_time))>>
            ELSE <<>>)

\* build_scenario_payload, after a Calculate: the fields the calculation
\* depends on and its results (texts, dependencies and charts left out).
build_scenario_payload(i, o) ==
    [version |-> "1.0",
     years |-> Years,
     tasks_per_year |-> i.tasks_per_month * 12,
     automation_coverage_pct |-> i.automation_coverage_pct,
     hourly_rate |-> i.hourly_rate,
     discount_rate_pct |-> i.discount_rate_pct,
     manual_total_minutes |-> SumSeq(i.manual_minutes),
     auto_total_minutes |-> SumSeq(i.auto_minutes),
     minutes_saved_per_change |-> SumSeq(i.manual_minutes) - SumSeq(i.auto_minutes),
     acquisition_strategy |-> i.acquisition_strategy,
     cost_breakdown |-> cost_breakdown(i, o),
     include_tech_debt |-> i.tech.include,
     tech_debt_base_annual |-> Opt(i.tech.include, i.tech.base_annual),
     tech_debt_residual_pct |->
         Opt(i.tech.include /\ i.tech.remediation, i.tech.residual_pct),
     tech_debt_annual_after |-> o.tech_debt_annual_after,
     tech_debt_remediation_one_time |-> o.tech_debt_remediation_one_time,
     include_csat_debt |-> i.csat.include,
     csat_debt_base_annual |-> Opt(i.csat.include, i.csat.base_annual),
     csat_debt_residual_pct |->
         Opt(i.csat.include /\ i.csat.remediation, i.csat.residual_pct),
     csat_debt_annual_after |-> o.csat_debt_annual_after,
     csat_debt_remediation_one_time |-> o.csat_debt_remediation_one_time,
     benefits |-> i.benefits,
     annual_total_benefit |-> o.annual_total_benefit,
     annual_run_cost_effective |-> o.annual_run_cost_effective,
     annual_net_benefit |-> o.annual_net_benefit,
     project_cost |-> o.project_cost,
     cash_flows |-> o.cash_flows]

\* float(sv(key, default)) for an optional number of the document: a None
\* stored under the key is only read when the widget is not rendered.
OrDefault(x, default) == IF x = None THEN default ELSE x[1]

\* The debt widgets of a new session with the document d loaded: include from
\* include_*_debt; remediation set when *_remediation_one_time > 0 or
\* *_residual_pct is not None.
LoadedDebt(include, base, one_time, residual, defaults) ==
    [include |-> include,
     base_annual |-> OrDefault(base, defaults.base_annual),
     remediation |-> (one_time > 0 \/ residual # None),
     remediation_one_time |-> one_time,
     residual_pct |-> OrDefault(residual, defaults.residual_pct)]

\* The values the input widgets take in a new session with the document d in
\* st.session_state["loaded_scenario"].
WidgetValuesFrom(d) ==
    [acquisition_strategy |->
         IF d.acquisition_strategy = "Buy" THEN "Buy" ELSE "Build",
     buy |-> <<35000, 15000, 5000, 6000>>,
     build |-> <<40000, 10000, 3000, 8000>>,
     automation_coverage_pct |-> d.automation_coverage_pct,
     tasks_per_month |-> (IF d.tasks_per_year = 0 THEN 60 ELSE d.tasks_per_year) \div 12,
     hourly_rate |-> d.hourly_rate,
     discount_rate_pct |-> d.discount_rate_pct,
     manual_minutes |-> <<10, 15, 10, 15, 15, 10, 15, 10>>,
     auto_minutes |-> <<5, 5, 5, 5, 5, 5, 5, 5>>,
     benefits |-> d.benefits,
     tech |-> LoadedDebt(d.include_tech_debt, d.tech_debt_base_annual,
                         d.tech_debt_remediation_one_time, d.tech_debt_residual_pct,
                         [base_annual |-> 20000, residual_pct |-> 0]),
     csat |-> LoadedDebt(d.include_csat_debt, d.csat_debt_base_annual,
                         d.csat_debt_remediation_one_time, d.csat_debt_residual_pct,
                         [base_annual |-> 15000, residual_pct |-> 20])]


\* Values offered for the widgets before a scenario is saved.
ScenarioInputs ==
    [acquisition_strategy : {"Buy", "Build"},
     buy : {<<35000, 15000, 5000, 6000>>, <<20000, 15000, 5000, 6000>>},
     build : {<<40000, 10000, 3000, 8000>>},
     automation_coverage_pct : {80},
     tasks_per_month : {0, 5, 20},
     hourly_rate : {75},
     discount_rate_pct : {10},
     manual_minutes : {<<10, 15, 10, 15, 15, 10, 15, 10>>},
     auto_minutes : {<<5, 5, 5, 5, 5, 5, 5, 5>>},
     benefits : {<<>>, <<10000>>},
     tech : [include : BOOLEAN, base_annual : {20000}, remediation : BOOLEAN,
             remediation_one_time : {0, 10000}, residual_pct : {0}],
     csat : [include : BOOLEAN, base_annual : {15000}, remediation : BOOLEAN,
             remediation_one_time : {5000}, residual_pct : {20}]]

ScenarioInit ==
    /\ pc = "start"
    /\ inp \in ScenarioInputs
    /\ out = None
    /\ calc_runs = 0
    /\ cash_flows = None
    /\ loaded_scenario = None /\ scenario_json = None
    /\ csat_w = None /\ responses_year = 0 /\ csat_out = None /\ auto_expected = TRUE
    /\ dataA = None /\ dataB = None /\ rows = None
    /\ IrrIdle /\ PayIdle /\ NpvIdle /\ CsatIdle
    /\ PagesIdle

\* The scenario JSON of the results on the page is downloaded.
SaveScenario ==
    /\ out # None
    /\ scenario_json' = build_scenario_payload(inp, out)
    /\ pc' = "saved"
    /\ UNCHANGED <<cash_flows, csat_w, responses_year, csat_out, auto_expected, dataA,
                   dataB, rows, loaded_scenario, irrVars, payVars, npvVars,
                   csatVars, calcVars>>
    /\ UNCHANGED pageVars

\* The saved document is uploaded in a new session: it becomes
\* loaded_scenario, the widgets take their values from it, and no results are
\* shown until Calculate is clicked.
LoadScenario ==
    /\ scenario_json # None
    /\ loaded_scenario' = scenario_json
    /\ inp' = WidgetValuesFrom(scenario_json)
    /\ out' = None
    /\ cash_flows' = None
    /\ pc' = "loaded"
    /\ UNCHANGED <<calc_runs, csat_w, responses_year, csat_out, auto_expected, dataA,
                   dataB, rows, scenario_json, irrVars, payVars, npvVars, csatVars>>
    /\ UNCHANGED pageVars

ScenarioNext == Calculate \/ SaveScenario \/ LoadScenario

SpecScenario == ScenarioInit /\ [][ScenarioNext]_vars

\* C18: after a saved scenario is loaded back, the inputs are those of the
\* document (tasks per year, also 0; coverage; hourly rate; discount rate;
\* acquisition cost items; debt configuration; benefit items), and Calculate
\* gives the cash flows of the document again.
C18_RoundTripLossless ==
    (loaded_scenario # None /\ loaded_scenario = scenario_json /\ out # None) =>
        LET d == loaded_scenario
            r == build_scenario_payload(inp, out)
        IN  /\ r.tasks_per_year = d.tasks_per_year
            /\ r.automation_coverage_pct = d.automation_coverage_pct
            /\ r.hourly_rate = d.hourly_rate
            /\ r.discount_rate_pct = d.discount_rate_pct
            /\ r.acquisition_strategy = d.acquisition_strategy
            /\ r.cost_breakdown = d.cost_breakdown
            /\ r.include_tech_debt = d.include_tech_debt
            /\ r.tech_debt_base_annual = d.tech_debt_base_annual
            /\ r.tech_debt_residual_pct = d.tech_debt_residual_pct
            /\ r.tech_debt_remediation_one_time = d.tech_debt_remediation_one_time
            /\ r.include_csat_debt = d.include_csat_debt
            /\ r.csat_debt_base_annual = d.csat_debt_base_annual
            /\ r.csat_debt_residual_pct = d.csat_debt_residual_pct
            /\ r.csat_debt_remediation_one_time = d.csat_debt_remediation_one_time
            /\ r.benefits = d.benefits
            /\ r.cash_flows = d.cash_flows


-----------------------------------------------------------------------------
(* Percent inputs: automation coverage and the residual percents of the
   calculator page as read from a loaded document, and the response rate of
   csat_utils.responses_per_year *)

\* Raw percent values a document or a caller may supply.
RawPercents == {0 - 50, 0, 80, 100, 150}

Min(a, b) == IF a <= b THEN a ELSE b

\* st.number_input(min_value=.., max_value=.., value=..) when first rendered:
\* <<value>>, or <<>> when the value lies outside the range and the widget
\* raises, which ends the script run.
number_input(min_value, max_value, value) ==
    IF value < min_value \/ value > max_value THEN None ELSE <<value>>

\* csat_utils.responses_per_year: the response rate clamped to [0, 100].
responses_per_year(changes_per_month, responses_per_change, response_rate_pct) ==
    LET changes_per_year == changes_per_month * 12
        response_rate == Norm(Max(0, Min(100, response_rate_pct)), 100)
    IN  RatMul(Rat(changes_per_year * responses_per_change), response_rate)

\* The percent widgets of a run of the calculator page, both debts included
\* with remediation, and what the page derives from them: <<>> when a widget
\* raised.
PercentInputs(coverage, tech_residual, csat_residual) ==
    LET automation_coverage_pct == number_input(0, 100, coverage)
        residual_pct == number_input(0, 100, tech_residual)
        csat_residual_pct == number_input(0, 100, csat_residual)
    IN  IF automation_coverage_pct = None \/ residual_pct = None
            \/ csat_residual_pct = None
        THEN None
        ELSE [automation_coverage_pct |-> automation_coverage_pct[1],
              impact_pct |-> ImpactPct(automation_coverage_pct[1]),
              automation_coverage |-> Norm(automation_coverage_pct[1], 100),
              tech_debt_residual_pct |-> residual_pct[1],
              csat_debt_residual_pct |-> csat_residual_pct[1]]

PercentInit ==
    /\ pc = "start"
    /\ loaded_scenario \in [automation_coverage_pct : RawPercents,
                            tech_debt_residual_pct : RawPercents,
                            csat_debt_residual_pct : RawPercents]
    /\ inp = None /\ out = None /\ calc_runs = 0
    /\ csat_out = None
    /\ csat_w = None /\ responses_year = 0 /\ auto_expected = TRUE
    /\ dataA = None /\ dataB = None /\ rows = None
    /\ scenario_json = None
    /\ cash_flows = None
    /\ IrrIdle /\ PayIdle /\ NpvIdle /\ CsatIdle
    /\ PagesIdle

\* The first run of the page after the document was loaded.
RenderPercentInputs ==
    /\ pc = "start"
    /\ out' = PercentInputs(loaded_scenario.automation_coverage_pct,
                            loaded_scenario.tech_debt_residual_pct,
                            loaded_scenario.csat_debt_residual_pct)
    /\ inp' = IF out' = None THEN None
              ELSE <<out'.automation_coverage_pct, out'.tech_debt_residual_pct,
                     out'.csat_debt_residual_pct>>
    /\ pc' = IF out' = None THEN "error" ELSE "done"
    /\ UNCHANGED <<cash_flows, calc_runs, sessionVars, irrVars, payVars, npvVars,
                   csatVars>>
    /\ UNCHANGED pageVars

\* The user sets one of the percent widgets; the widget offers 0..100 only.
EditPercentInput ==
    /\ pc \in {"done", "edited"}
    /\ pc' = "edited"
    /\ \E k \in 1..3, v \in {0, 50, 100} :
          /\ v # inp[k]
          /\ inp' = [inp EXCEPT ![k] = v]
          /\ out' = PercentInputs(inp'[1], inp'[2], inp'[3])
    /\ UNCHANGED <<cash_flows, calc_runs, sessionVars, irrVars, payVars, npvVars,
                   csatVars>>
    /\ UNCHANGED pageVars

\* responses = csat_utils.responses_per_year(10, 1, response_rate_pct)
ResponsesPerYear ==
    /\ csat_out = None
    /\ \E raw \in RawPercents :
          csat_out' = [response_rate_pct |-> raw,
                       responses_per_year |-> responses_per_year(10, 1, raw)]
    /\ UNCHANGED <<pc, cash_flows, csat_w, responses_year, auto_expected, dataA, dataB,
                   rows, loaded_scenario, scenario_json, irrVars, payVars, npvVars,
                   csatVars, calcVars>>
    /\ UNCHANGED pageVars

PercentNext == RenderPercentInputs \/ EditPercentInput \/ ResponsesPerYear

SpecPercent == PercentInit /\ [][PercentNext]_vars

\* A rational within [0, 1].
UnitInterval(x) == RatLeq(Rat(0), x) /\ RatLeq(x, Rat(1))

\* C19: every percent input is clamped into [0, 100] before use: whatever raw
\* coverage and residual percents the document supplies, the page runs with
\* them clamped, impact_pct = 1 - coverage/100 and the automated share
\* coverage/100 lie in [0, 1]; and the response-rate factor lies in [0, 1].
C19_PercentsClamped ==
    /\ pc # "start" =>
          /\ out # None
          /\ pc # "edited" =>
                /\ out.automation_coverage_pct =
                      Max(0, Min(100, loaded_scenario.automation_coverage_pct))
                /\ out.tech_debt_residual_pct =
                      Max(0, Min(100, loaded_scenario.tech_debt_residual_pct))
                /\ out.csat_debt_residual_pct =
                      Max(0, Min(100, loaded_scenario.csat_debt_residual_pct))
          /\ out.automation_coverage_pct \in 0..100
          /\ out.tech_debt_residual_pct \in 0..100
          /\ out.csat_debt_residual_pct \in 0..100
          /\ UnitInterval(out.impact_pct)
          /\ UnitInterval(out.automation_coverage)
    /\ csat_out # None =>
          /\ RatLeq(Rat(0), csat_out.responses_per_year)
          /\ RatLeq(csat_out.responses_per_year, Rat(120))


-----------------------------------------------------------------------------
(* IRR against the discount (hurdle) rate: npv and irr of the Calculate
   handler, lines 2293-2304 *)

\* Discount rates of 0%, 10%, .. 100%, as numerators over RateDen.
HurdleRates == {k * Pow(2, FracBits) : k \in 0..10}

\* C20: for a series with a negative Year-0 entry and non-negative later
\* entries, whenever compute_irr returns a rate above the discount rate the
\* NPV at the discount rate is positive, and whenever it returns a rate below
\* it that NPV is negative.
C20_IrrVersusHurdle ==
    (pc = "done" /\ irr # None /\ Conventional(cash_flows)) =>
        \A d \in HurdleRates :
            /\ irr[1] > d => npv_at(d, cash_flows)[1] > 0
            /\ irr[1] < d => npv_at(d, cash_flows)[1] < 0

-----------------------------------------------------------------------------
(* compute_irr: termination and the bracket of the bisection *)

\* A step of compute_irr, seen from its position only: every step of IrrNext
\* leaves "start", runs one more iteration or returns, and one of them is
\* possible exactly until the function has returned.
IrrProgress ==
    /\ pc \in {"start", "loop"}
    /\ pc' \in {"loop", "done"}
    /\ iter' \in {iter, iter + 1}
    /\ <<pc', iter'>> # <<pc, iter>>

\* compute_irr under the scheduling of a sequential program: a function that
\* has not returned takes its next step.
SpecIrrLive == IrrInit /\ [][IrrNext]_vars /\ WF_<<pc, iter>>(IrrProgress)

\* What compute_irr has done so far is within its bounds: at most 102 calls of
\* npv_at (the two ends, then one midpoint per iteration, at most 100); no
\* midpoint kept as an end of the bracket is within the tolerance; a returned
\* rate is the first midpoint with |NPV| < 1e-6 or, after exactly 100
\* iterations, the midpoint of the final bracket.
IrrBounded ==
    /\ npv_calls <= 102
    /\ iter <= 100
    /\ pc # "start" => npv_calls = 2 + iter
    /\ (pc = "loop" /\ guess_low # Low0) =>
          ~AbsBelow(npv_low, 1000000)
    /\ (pc = "loop" /\ guess_high # High0) =>
          ~AbsBelow(npv_high, 1000000)
    /\ (pc = "done" /\ irr # None) =>
          LET r == npv_at(irr[1], cash_flows)
          IN  \/ /\ iter \in 1..100
                 /\ irr[1] = (guess_low + guess_high) \div 2
                 /\ AbsBelow(r, 1000000)
              \/ /\ iter = 100
                 /\ npv_calls = 102
                 /\ irr[1] = (guess_low + guess_high) \div 2
                 /\ ~AbsBelow(r, 1000000)

\* C23: compute_irr always terminates, for every cash-flow series, having
\* called npv_at at most 102 times; it returns at the first midpoint with
\* |NPV| < 1e-6 and otherwise, after exactly 100 iterations, the midpoint of
\* the final bracket.
C23_Terminates == <>(pc = "done") /\ []IrrBounded

\* C23 witness: compute_irr has returned after all 100 iterations and 102
\* calls of npv_at, none of the midpoints having met the tolerance.
C23_Witness ==
    /\ pc = "done"
    /\ irr # None
    /\ iter = 100
    /\ npv_calls = 102
    /\ ~AbsBelow(npv_at(irr[1], cash_flows), 1000000)

\* C24: at the start of every iteration the bracket lies within the initial
\* bracket, has half the width of the bracket of the iteration before (as
\* long as the halves are representable rates), and NPV(low) * NPV(high) <= 0.
C24_BracketInvariant ==
    pc = "loop" =>
        /\ Low0 <= guess_low
        /\ guess_low <= guess_high
        /\ guess_high <= High0
        /\ iter <= FracBits =>
              (guess_high - guess_low) * Pow(2, iter) = High0 - Low0
        /\ npv_low = npv_at(guess_low, cash_flows)
        /\ npv_high = npv_at(guess_high, cash_flows)
        /\ Sgn(npv_low[1]) * Sgn(npv_high[1]) <= 0

-----------------------------------------------------------------------------
(* compute_payback_period: range of the result *)

-----------------------------------------------------------------------------
(* The itemized cost breakdown against the totals of the Calculate handler *)

\* Sum of the amounts of the items with the given timing.
RECURSIVE TimingSum(_, _)
TimingSum(items, timing) ==
    IF items = <<>> THEN Rat(0)
    ELSE RatAdd(IF Head(items).timing = timing THEN Head(items).amount ELSE Rat(0),
                TimingSum(Tail(items), timing))

-----------------------------------------------------------------------------
(* The simple time savings calculator, pages/10_Simple_Time_Savings_Calculator.py:
   inputs kept in the session, quick ROI, results and narrative, the saved
   JSON document and its load from the sidebar.  Amounts and hours are whole
   numbers here (floats in the code); a document value is Num(v), TextCell
   for a value that is no number, or Missing for an absent key. *)

DefaultTitle == "My new network automation project"
DefaultDesc == "Here is a short description of my my new network automation project"
defaults_manual == <<10, 15, 10, 15, 15, 10, 15, 10>>
defaults_auto == <<5, 5, 5, 5, 5, 5, 5, 5>>

\* The session after the first run: every widget at its value= default.
SimpleDefaults ==
    [simple_project_title |-> DefaultTitle,
     simple_project_desc |-> DefaultDesc,
     sts_ipm |-> 100, sts_cov |-> 80, sts_rate |-> 100,
     sts_impl_hours |-> 40, sts_maint_hours |-> 2,
     m_vals |-> defaults_manual, a_vals |-> defaults_auto]

\* Values the user enters into each widget.
SimpleChoices ==
    [simple_project_title |-> {"", DefaultTitle},
     simple_project_desc |-> {"", DefaultDesc},
     sts_ipm |-> {0, 100}, sts_cov |-> {0, 80}, sts_rate |-> {0, 100},
     sts_impl_hours |-> {0, 40}, sts_maint_hours |-> {0, 2},
     m_vals |-> {defaults_manual, <<0, 15, 10, 15, 15, 10, 15, 10>>},
     a_vals |-> {defaults_auto, <<0, 5, 5, 5, 5, 5, 5, 6>>}]

\* Lines 211-227: the calculations of a script run.
SimpleCalc(s) ==
    LET manual_total == SumSeq(s.m_vals)
        auto_total == SumSeq(s.a_vals)
        minutes_saved == Max(0, manual_total - auto_total)
        tasks_per_year == s.sts_ipm * 12
        effective_changes == Norm(tasks_per_year * s.sts_cov, 100)
        annual_hours_saved == RatMul(Norm(minutes_saved, 60), effective_changes)
        annual_cost_savings == RatMul(annual_hours_saved, Rat(s.sts_rate))
        project_cost_over_window ==
            (s.sts_impl_hours + s.sts_maint_hours * 1) * s.sts_rate
        benefit_over_window == annual_cost_savings
        quick_roi_pct ==
            IF project_cost_over_window > 0
            THEN RatMul(RatMul(RatSub(benefit_over_window,
                                      Rat(project_cost_over_window)),
                               <<1, project_cost_over_window>>),
                        Rat(100))
            ELSE None
    IN  [annual_cost_savings |-> annual_cost_savings,
         project_cost_over_window |-> project_cost_over_window,
         quick_roi_pct |-> quick_roi_pct]

\* Lines 244-257: every input still at its default.
is_default(s) == s = SimpleDefaults

\* Line 305: the Quick ROI cell of the results table.
RoiCell(quick_roi_pct) ==
    IF quick_roi_pct # None THEN Num(quick_roi_pct)
    ELSE [kind |-> "N/A", v |-> Rat(0)]

\* Lines 278-328: "hidden" while the inputs are the defaults; otherwise the
\* table, then the narrative, whose f-string formats quick_roi_pct with
\* ",.1f" and raises TypeError for None: the run ends there with an error.
ResultsSection(s) ==
    IF is_default(s) THEN "hidden"
    ELSE IF SimpleCalc(s).quick_roi_pct = None THEN "error"
    ELSE "shown"

\* Lines 347-380: the document offered for download (timestamp, short title,
\* totals and narrative text left out).
SimplePayload(s) ==
    [title |-> s.simple_project_title,
     description |-> s.simple_project_desc,
     interactionsPerMonth |-> Num(s.sts_ipm),
     automationCoveragePct |-> Num(s.sts_cov),
     hourlyRate |-> Num(s.sts_rate),
     implementHoursOneTime |-> Num(s.sts_impl_hours),
     maintainHoursPerYear |-> Num(s.sts_maint_hours),
     manualStepsMinutes |-> [k \in 1..8 |-> Num(s.m_vals[k])],
     automatedStepsMinutes |-> [k \in 1..8 |-> Num(s.a_vals[k])],
     quickRoiPctOneYear |-> SimpleCalc(s).quick_roi_pct]

\* Lines 110-117: a title or description is applied when it is truthy.
LoadText(r, text, key) ==
    IF r.ok /\ text # "" THEN [r EXCEPT !.s[key] = text] ELSE r

\* Lines 120-139: st.session_state[key] = float(assump[k]) or 0.0, when the
\* key is present; float() of a value that is no number raises.
LoadAssumption(r, cell, key) ==
    IF ~r.ok \/ cell.kind = "missing" THEN r
    ELSE IF cell.kind = "num" THEN [r EXCEPT !.s[key] = cell.v]
    ELSE [r EXCEPT !.ok = FALSE]

\* Lines 144-147: st.session_state[f"simple_time_m{i}"] = int(val), one entry
\* after the other; int() of a value that is no number raises.
RECURSIVE LoadSteps(_, _, _, _)
LoadSteps(r, cells, key, k) ==
    IF ~r.ok \/ k > Len(cells) THEN r
    ELSE IF cells[k].kind = "num"
         THEN LoadSteps([r EXCEPT !.s[key][k] = cells[k].v], cells, key, k + 1)
         ELSE [r EXCEPT !.ok = FALSE]

\* Lines 103-148, the body of the try block: the session after it and whether
\* it ran to its end (ok) or raised on the way.
ApplyUploadedJson(s, data) ==
    LET r0 == [s |-> s, ok |-> TRUE]
        r1 == LoadText(r0, data.title, "simple_project_title")
        r2 == LoadText(r1, data.description, "simple_project_desc")
        r3 == LoadAssumption(r2, data.interactionsPerMonth, "sts_ipm")
        r4 == LoadAssumption(r3, data.automationCoveragePct, "sts_cov")
        r5 == LoadAssumption(r4, data.hourlyRate, "sts_rate")
        r6 == LoadAssumption(r5, data.implementHoursOneTime, "sts_impl_hours")
        r7 == LoadAssumption(r6, data.maintainHoursPerYear, "sts_maint_hours")
        r8 == LoadSteps(r7, data.manualStepsMinutes, "m_vals", 1)
    IN  LoadSteps(r8, data.automatedStepsMinutes, "a_vals", 1)

\* A notice that stays scheduled after it was shown.
ShowUploadNotice_KeepFlag(applied) == [shown |-> applied, applied |-> applied]

\* Lines 54-58: the success notice is shown when simple_upload_applied is set,
\* and the flag is deleted.
ShowUploadNotice(applied) == [shown |-> applied, applied |-> FALSE]

\* Scenarios saved in earlier sessions: inputs whose results section was shown.
DiskScenarios ==
    {[SimpleDefaults EXCEPT !.simple_project_title = "", !.sts_ipm = 0,
                            !.sts_maint_hours = 0,
                            !.a_vals = <<0, 5, 5, 5, 5, 5, 5, 6>>],
     [SimpleDefaults EXCEPT !.simple_project_desc = "", !.sts_cov = 0,
                            !.sts_impl_hours = 0,
                            !.m_vals = <<0, 15, 10, 15, 15, 10, 15, 10>>]}

SavedDocs == {SimplePayload(s) : s \in DiskScenarios}

\* Saved documents edited by hand: a rate or a step minute that is no number.
BrokenDocs ==
    {[d EXCEPT !.hourlyRate = TextCell] : d \in SavedDocs}
        \cup {[d EXCEPT !.automatedStepsMinutes[2] = TextCell] : d \in SavedDocs}

\* uploaded.name.startswith("SimpleROI_"), over the names offered.
SimpleRoiNames == {"SimpleROI_a.json", "SimpleROI_b.json"}

SimpleFiles ==
    {[name |-> n, data |-> d] : n \in SimpleRoiNames, d \in SavedDocs \cup BrokenDocs}
        \cup {[name |-> "notes.json", data |-> d] : d \in SavedDocs}

\* One run of the script to its end, with no load in it: the notice of line
\* 54, the filename check of line 82, the results section.
SimpleView(s, applied, upload, load_failed) ==
    [notice |-> ShowUploadNotice(applied).shown,
     invalid_file |-> (upload # None /\ upload.name \notin SimpleRoiNames),
     load_failed |-> load_failed,
     results |-> ResultsSection(s),
     roi_cell |-> RoiCell(SimpleCalc(s).quick_roi_pct),
     payload |-> IF ResultsSection(s) = "shown" THEN SimplePayload(s) ELSE None]

SimpleInit ==
    /\ pc = "idle"
    /\ simple = SimpleDefaults
    /\ simple_upload = None
    /\ simple_processed = None
    /\ simple_applied = FALSE
    /\ simple_view = SimpleView(SimpleDefaults, FALSE, None, FALSE)
    /\ cash_flows = None
    /\ IrrIdle /\ PayIdle /\ NpvIdle /\ CsatIdle /\ CalcIdle /\ SessionIdle
    /\ TimelineIdle

SimpleOthers ==
    <<cash_flows, irrVars, payVars, npvVars, csatVars, calcVars, sessionVars,
      timelineVars>>

\* The user changes one input widget; the script runs again.
EditSimpleInput ==
    /\ pc = "idle"
    /\ \E key \in DOMAIN SimpleChoices : \E v \in SimpleChoices[key] :
          /\ v # simple[key]
          /\ simple' = [simple EXCEPT ![key] = v]
    /\ simple_view' = SimpleView(simple', simple_applied, simple_upload, FALSE)
    /\ simple_applied' = ShowUploadNotice(simple_applied).applied
    /\ UNCHANGED <<pc, simple_upload, simple_processed, SimpleOthers>>

\* The user picks a file in the uploader; the script runs again.
UploadSimpleFile ==
    /\ pc = "idle"
    /\ \E f \in SimpleFiles : f # simple_upload /\ simple_upload' = f
    /\ simple_view' = SimpleView(simple, simple_applied, simple_upload', FALSE)
    /\ simple_applied' = ShowUploadNotice(simple_applied).applied
    /\ UNCHANGED <<pc, simple, simple_processed, SimpleOthers>>

\* The user removes the uploaded file; the script runs again.
RemoveSimpleFile ==
    /\ pc = "idle"
    /\ simple_upload # None
    /\ simple_upload' = None
    /\ simple_view' = SimpleView(simple, simple_applied, None, FALSE)
    /\ simple_applied' = ShowUploadNotice(simple_applied).applied
    /\ UNCHANGED <<pc, simple, simple_processed, SimpleOthers>>

\* Lines 382-394: a click on "Save results as JSON"; the script runs again.
SaveResultsAsJson ==
    /\ pc = "idle"
    /\ simple_view.payload # None
    /\ simple_view' = SimpleView(simple, simple_applied, simple_upload, FALSE)
    /\ simple_applied' = ShowUploadNotice(simple_applied).applied
    /\ UNCHANGED <<pc, simple, simple_upload, simple_processed, SimpleOthers>>

\* Lines 90-154: a click on "Load uploaded JSON", enabled for a SimpleROI_
\* file whose name is not the processed one.  When the try block runs to its
\* end the name is recorded, the notice is scheduled and st.rerun() ends the
\* run; when it raises, st.error shows the failure and the run goes on.
LoadUploadedJson ==
    /\ pc = "idle"
    /\ simple_upload # None
    /\ simple_upload.name \in SimpleRoiNames
    /\ simple_processed # <<simple_upload.name>>
    /\ LET shown == ShowUploadNotice(simple_applied)
           r == ApplyUploadedJson(simple, simple_upload.data)
       IN  /\ simple' = r.s
           /\ IF r.ok
              THEN /\ simple_processed' = <<simple_upload.name>>
                   /\ simple_applied' = TRUE
                   /\ pc' = "rerun"
                   /\ UNCHANGED simple_view
              ELSE /\ simple_view' = SimpleView(r.s, simple_applied, simple_upload, TRUE)
                   /\ simple_applied' = shown.applied
                   /\ UNCHANGED <<pc, simple_processed>>
    /\ UNCHANGED <<simple_upload, SimpleOthers>>

\* The run that st.rerun() starts.
SimpleRerun ==
    /\ pc = "rerun"
    /\ simple_view' = SimpleView(simple, simple_applied, simple_upload, FALSE)
    /\ simple_applied' = ShowUploadNotice(simple_applied).applied
    /\ pc' = "idle"
    /\ UNCHANGED <<simple, simple_upload, simple_processed, SimpleOthers>>

SimpleNext ==
    \/ EditSimpleInput
    \/ UploadSimpleFile
    \/ RemoveSimpleFile
    \/ SaveResultsAsJson
    \/ LoadUploadedJson
    \/ SimpleRerun

SpecSimple == SimpleInit /\ [][SimpleNext]_vars

\* C21: quick ROI = (annual cost savings - cost) / cost x 100 with
\* cost = (implement hours + maintain hours) x hourly rate; with cost 0 the
\* ROI is undefined and shown as N/A, and the results section, narrative
\* included, renders without an error.
C21_QuickRoi ==
    (pc = "idle" /\ ~is_default(simple)) =>
        LET c == SimpleCalc(simple)
            cost == (simple.sts_impl_hours + simple.sts_maint_hours) * simple.sts_rate
        IN  /\ simple_view.results = "shown"
            /\ cost = 0 => simple_view.roi_cell.kind = "N/A"
            /\ cost # 0 =>
                  /\ simple_view.roi_cell.kind = "num"
                  /\ RatEq(RatMul(simple_view.roi_cell.v, Rat(cost)),
                           RatMul(RatSub(c.annual_cost_savings, Rat(cost)), Rat(100)))

\* C22: after a load of a document that was saved from a scenario, every
\* saved input is in the session, whatever the session held before, also a
\* saved 0 and an empty title or description.
C22_LoadRestoresSaved ==
    (pc = "rerun" /\ simple_upload.data \in SavedDocs) =>
        /\ simple.simple_project_title = simple_upload.data.title
        /\ simple.simple_project_desc = simple_upload.data.description
        /\ Num(simple.sts_ipm) = simple_upload.data.interactionsPerMonth
        /\ Num(simple.sts_cov) = simple_upload.data.automationCoveragePct
        /\ Num(simple.sts_rate) = simple_upload.data.hourlyRate
        /\ Num(simple.sts_impl_hours) = simple_upload.data.implementHoursOneTime
        /\ Num(simple.sts_maint_hours) = simple_upload.data.maintainHoursPerYear
        /\ \A k \in 1..8 :
              /\ Num(simple.m_vals[k]) = simple_upload.data.manualStepsMinutes[k]
              /\ Num(simple.a_vals[k]) = simple_upload.data.automatedStepsMinutes[k]

\* C25: the rerun that a successful load triggers shows the success notice,
\* every run that no successful load triggered shows none, and no notice
\* stays scheduled once a run has ended; while a file whose name is the
\* processed one stays uploaded, no load is applied.
C25_NoticeOnce ==
    /\ [](/\ pc = "rerun" => simple_applied
          /\ pc = "idle" => ~simple_applied)
    /\ [][/\ pc = "rerun" => simple_view'.notice
          /\ (pc = "idle" /\ pc' = "idle") => ~simple_view'.notice
          /\ (/\ pc = "idle"
              /\ simple_upload # None
              /\ simple_processed = <<simple_upload.name>>
              /\ simple_upload' = simple_upload) =>
                (/\ pc' = "idle"
                 /\ ~simple_view'.load_failed
                 /\ simple_processed' = simple_processed
                 /\ ~simple_applied')]_vars

\* C25 witness: the rerun after a successful load has just shown the notice.
C25_Witness ==
    /\ pc = "idle"
    /\ simple_view.notice
    /\ simple_upload # None
    /\ simple_processed = <<simple_upload.name>>
    /\ ~simple_applied

\* C28: a load that raises partway changes no input of the session, does
\* not mark the file as processed and schedules no notice.
C28_FailedLoadAtomic ==
    [][simple_view'.load_failed =>
          /\ simple' = simple
          /\ simple_processed' = simple_processed
          /\ simple_applied' = FALSE
          /\ pc' = "idle"]_vars

-----------------------------------------------------------------------------
(* The timeline section of the solution wizard, pages/40_Solution_Wizard.py
   lines 1041-1147: milestone rows with a Delete checkbox, and the schedule in
   business days.  A date is a day number, day 0 being a Monday.  A milestone
   row is [name, duration] (its notes are handled as its name is).  Streamlit
   keeps the value of a keyed widget from one run to the next while the widget
   is rendered; tl_widgets holds the values of the _tl_del_{idx} checkboxes of
   the rows rendered last.  The name and duration widgets show the row they
   are created for. *)

\* Most rows the Add button is pressed up to.
MaxRows == 7

Milestone(name, duration) == [name |-> name, duration |-> duration]

\* Lines 1063-1071: the rows a new session starts with.
DefaultMilestones ==
    <<Milestone("Planning", 5), Milestone("Design", 10), Milestone("Build", 10),
      Milestone("Test", 5), Milestone("Pilot", 5),
      Milestone("Production Rollout", 10)>>

\* Most runs of the section in one session.
MaxTimelineRuns == 4

\* What the user types into a row.
RowChoices == {Milestone("", 2), Milestone("Review", 0)}

\* Start dates offered: a Monday, a Saturday.
StartDates == {0, 5}

\* Holiday calendars offered: none, or a Monday and a Friday off.
HolidaySets == {{}, {7, 11}}

\* cur.weekday() < 5 and (holiday_set is None or cur not in holiday_set)
IsBusinessDay(cur, holidays) == cur % 7 < 5 /\ cur \notin holidays

\* Business days that skip the weekend only.
RECURSIVE add_business_days_NoHolidays(_, _, _)
add_business_days_NoHolidays(d, n, holidays) ==
    IF n <= 0 THEN d
    ELSE IF IsBusinessDay(d + 1, {})
         THEN add_business_days_NoHolidays(d + 1, n - 1, holidays)
         ELSE add_business_days_NoHolidays(d + 1, n, holidays)

\* _add_business_days: step a day at a time, counting the business days.
RECURSIVE add_business_days(_, _, _)
add_business_days(d, n, holidays) ==
    IF n <= 0 THEN d
    ELSE IF IsBusinessDay(d + 1, holidays)
         THEN add_business_days(d + 1, n - 1, holidays)
         ELSE add_business_days(d + 1, n, holidays)

\* Lines 1124-1147: the schedule, the rows without a name and a duration
\* left out; k is the row looked at, cursor the start of the next item.
RECURSIVE BuildSchedule(_, _, _, _)
BuildSchedule(milestones, k, cursor, holidays) ==
    IF k > Len(milestones) THEN <<>>
    ELSE LET row == milestones[k]
             dur == row.duration
         IN  IF row.name = "" /\ dur <= 0
             THEN BuildSchedule(milestones, k + 1, cursor, holidays)
             ELSE LET end == IF dur > 0
                             THEN add_business_days(cursor, dur, holidays)
                             ELSE cursor
                  IN  <<[name |-> IF row.name = "" THEN "(Unnamed)" ELSE row.name,
                         duration_bd |-> dur,
                         start |-> cursor,
                         end |-> end]>>
                        \o BuildSchedule(milestones, k + 1, end, holidays)

\* total_bd += max(0, dur), over the scheduled items.
RECURSIVE TotalBd(_)
TotalBd(schedule) ==
    IF schedule = <<>> THEN 0
    ELSE Max(0, Head(schedule).duration_bd) + TotalBd(Tail(schedule))

\* Lines 1119-1122: pop the flagged rows, from the last index to the first.
RECURSIVE ApplyDeletions(_, _, _)
ApplyDeletions(milestones, flags, i) ==
    IF i = 0 THEN milestones
    ELSE ApplyDeletions(
            IF flags[i] /\ i <= Len(milestones)
            THEN [k \in 1..(Len(milestones) - 1) |->
                     IF k < i THEN milestones[k] ELSE milestones[k + 1]]
            ELSE milestones,
            flags, i - 1)

\* The Delete checkboxes of a run that renders n rows: the kept value of a
\* checkbox rendered before, unchecked for a new one.
DeleteFlags(kept, n) ==
    [k \in 1..n |-> IF k <= Len(kept) THEN kept[k] ELSE FALSE]

\* One run of the section, lines 1053-1147, for the rows and checkbox values
\* it renders.
TimelineRun(event, milestones, flags, start_date, holidays) ==
    /\ timeline_runs < MaxTimelineRuns
    /\ timeline_runs' = timeline_runs + 1
    /\ pc' = event
    /\ timeline_start_date' = start_date
    /\ holiday_set' = holidays
    /\ tl_widgets' = flags
    /\ timeline_milestones' = ApplyDeletions(milestones, flags, Len(flags))
    /\ timeline_schedule' =
          LET schedule == BuildSchedule(timeline_milestones', 1, start_date, holidays)
          IN  [items |-> schedule, total_business_days |-> TotalBd(schedule)]
    /\ UNCHANGED <<cash_flows, irrVars, payVars, npvVars, csatVars, calcVars,
                   sessionVars, simpleVars>>

TimelineInit ==
    /\ pc = "start"
    /\ timeline_start_date \in StartDates
    /\ holiday_set \in HolidaySets
    /\ timeline_milestones = None
    /\ tl_widgets = None
    /\ timeline_schedule = None
    /\ timeline_runs = 0
    /\ cash_flows = None
    /\ IrrIdle /\ PayIdle /\ NpvIdle /\ CsatIdle /\ CalcIdle /\ SessionIdle
    /\ SimpleIdle

\* The first run of a session.
TimelineFirstRun ==
    /\ pc = "start"
    /\ TimelineRun("first", DefaultMilestones,
                   DeleteFlags(<<>>, Len(DefaultMilestones)),
                   timeline_start_date, holiday_set)

\* Lines 1076-1079: a click on "Add milestone row".
AddMilestoneRow ==
    /\ pc # "start"
    /\ Len(timeline_milestones) < MaxRows
    /\ LET milestones == Append(timeline_milestones, Milestone("", 0))
       IN  TimelineRun("add", milestones, DeleteFlags(tl_widgets, Len(milestones)),
                       timeline_start_date, holiday_set)

\* The user edits the name and duration of a row.
EditMilestone ==
    /\ pc # "start"
    /\ \E idx \in 1..Len(timeline_milestones) : \E row \in RowChoices :
          /\ row # timeline_milestones[idx]
          /\ TimelineRun("edit", [timeline_milestones EXCEPT ![idx] = row],
                         DeleteFlags(tl_widgets, Len(timeline_milestones)),
                         timeline_start_date, holiday_set)

\* The user checks Delete on a row.
CheckDelete ==
    /\ pc # "start"
    /\ \E idx \in 1..Len(timeline_milestones) :
          LET flags == DeleteFlags(tl_widgets, Len(timeline_milestones))
          IN  /\ ~flags[idx]
              /\ TimelineRun("delete", timeline_milestones,
                             [flags EXCEPT ![idx] = TRUE],
                             timeline_start_date, holiday_set)

\* The user unchecks a Delete checkbox.
UncheckDelete ==
    /\ pc # "start"
    /\ \E idx \in 1..Len(timeline_milestones) :
          LET flags == DeleteFlags(tl_widgets, Len(timeline_milestones))
          IN  /\ flags[idx]
              /\ TimelineRun("undelete", timeline_milestones,
                             [flags EXCEPT ![idx] = FALSE],
                             timeline_start_date, holiday_set)

\* The user picks another start date or holiday calendar.
ChangeCalendar ==
    /\ pc # "start"
    /\ \E d \in StartDates : \E h \in HolidaySets :
          /\ <<d, h>> # <<timeline_start_date, holiday_set>>
          /\ TimelineRun("calendar", timeline_milestones,
                         DeleteFlags(tl_widgets, Len(timeline_milestones)), d, h)

\* Any other interaction with the page: the script runs again, no timeline
\* widget changed by the user.
TimelineRerun ==
    /\ pc # "start"
    /\ TimelineRun("rerun", timeline_milestones,
                   DeleteFlags(tl_widgets, Len(timeline_milestones)),
                   timeline_start_date, holiday_set)

TimelineNext ==
    \/ TimelineFirstRun
    \/ AddMilestoneRow
    \/ EditMilestone
    \/ CheckDelete
    \/ UncheckDelete
    \/ ChangeCalendar
    \/ TimelineRerun

SpecTimeline == TimelineInit /\ [][TimelineNext]_vars

\* A sequence without its entry i.
RemoveAt(q, i) == [k \in 1..(Len(q) - 1) |-> IF k < i THEN q[k] ELSE q[k + 1]]

\* C29: checking Delete on row i removes exactly that row and leaves the
\* other rows and their order as they were; a later run with no further user
\* action removes no row.
C29_DeleteExactlyOne ==
    [][/\ pc' = "delete" =>
             \E i \in 1..Len(timeline_milestones) :
                /\ tl_widgets'[i]
                /\ i > Len(tl_widgets) \/ ~tl_widgets[i]
                /\ timeline_milestones' = RemoveAt(timeline_milestones, i)
       /\ pc' = "rerun" => timeline_milestones' = timeline_milestones]_vars

\* Business days within (from, to].
BusinessDaysIn(from, to, holidays) ==
    Cardinality({x \in (from + 1)..to : x % 7 \in 0..4 /\ x \notin holidays})

\* C30: the milestones are scheduled back to back from the start date; a
\* milestone of duration d > 0 ends on a Monday-Friday day that is no holiday,
\* with exactly d business days in (start, end]; one of duration 0 ends on its
\* start date; total_business_days is the sum of the scheduled durations.
C30_Schedule ==
    timeline_schedule # None =>
        LET items == timeline_schedule.items
        IN  /\ \A k \in 1..Len(items) :
                  /\ items[k].start =
                        IF k = 1 THEN timeline_start_date ELSE items[k - 1].end
                  /\ items[k].duration_bd >= 0
                  /\ items[k].duration_bd = 0 => items[k].end = items[k].start
                  /\ items[k].duration_bd > 0 =>
                        /\ items[k].end % 7 \in 0..4
                        /\ items[k].end \notin holiday_set
                        /\ BusinessDaysIn(items[k].start, items[k].end, holiday_set)
                              = items[k].duration_bd
            /\ timeline_schedule.total_business_days
                  = SumSeq([k \in 1..Len(items) |-> items[k].duration_bd])

\* C30 witness: a schedule from a Saturday with holidays in the calendar,
\* holding a milestone of duration 0 and one that runs over a holiday.
C30_Witness ==
    /\ timeline_schedule # None
    /\ timeline_start_date = 5
    /\ holiday_set # {}
    /\ \E k \in 1..Len(timeline_schedule.items) :
          timeline_schedule.items[k].duration_bd = 0
    /\ \E k \in 1..Len(timeline_schedule.items) :
          LET it == timeline_schedule.items[k]
          IN  it.duration_bd > 0 /\ \E h \in holiday_set : it.start < h /\ h < it.end

====
